---- MODULE Spec2Model ----
(***************************************************************************)
(* State-machine model of the IAM-GENI directory security-posture          *)
(* aggregator: iamDashboard/iamMetrics.py (IAMPlugin and its timestamp     *)
(* utility), iamDashboard/dashboardApp.py (tile extraction) and the        *)
(* classifiers of AD_provisioning_Agent.py.                                *)
(*                                                                         *)
(* The directory and the cloud service are the environment: they are what  *)
(* the LDAP server / the REST endpoints answer.  Every method of the       *)
(* program is one action; a method that loops (paged scan, N+1 owner       *)
(* look-ups) is computed to its end by a RECURSIVE operator inside that    *)
(* action.                                                                 *)
(***************************************************************************)
EXTENDS Integers, Sequences, FiniteSets, TLC

(***************************************************************************)
(* Bounds of the model.                                                    *)
(***************************************************************************)
\* largest number of entries the directory returns for one filter
MaxMatch == 3
\* largest number of entries the server puts on one page (the code asks for
\* paged_size=500; the server may always answer with fewer)
MaxPageLen == 2
\* largest explicit max_results / count / limit argument of a direct call
MaxLimit == 2
\* largest number of failing requests within one top-level invocation
MaxFaults == 1
\* largest number of objects of one kind the cloud tenant holds
MaxCloud == 3
\* largest value of the five low bits of a userAccountControl value checked
MaxFlagLow == 31
\* most queries one browser session submits
MaxTurns == 1
\* most events pushed to the observability queue in one behaviour
MaxEvents == 8
\* latest calendar time converted, in microseconds after 1601-01-01T00:00:00Z
MaxMicros == 40

(***************************************************************************)
(* Python values.                                                          *)
(***************************************************************************)
\* Optional[int]: None, or an int
None == [some |-> FALSE, v |-> 0]
Some(n) == [some |-> TRUE, v |-> n]

\* An attribute value as entry.<attr>.value delivers it: absent (None), an
\* integer, or something int() cannot parse.
NoValue == [tag |-> "none", v |-> 0]
IntValue(n) == [tag |-> "int", v |-> n]
BadValue == [tag |-> "bad", v |-> 0]

Min(a, b) == IF a <= b THEN a ELSE b
Max(a, b) == IF a >= b THEN a ELSE b

\* s[:k] for an int k (a negative k counts from the end)
PySliceInt(s, k) ==
    IF k >= 0 THEN SubSeq(s, 1, Min(k, Len(s)))
    ELSE SubSeq(s, 1, Max(Len(s) + k, 0))

\* s[:k] for k an Optional[int]; s[:None] is the whole list
PySlice(s, k) == IF k.some THEN PySliceInt(s, k.v) ELSE s

\* d.get(key, default) on a JSON object
Get(d, key, default) == IF key \in DOMAIN d THEN d[key] ELSE default

\* [x for x in s if Keep(x)]
Filter(s, Keep(_)) ==
    LET F[i \in 0..Len(s)] ==
            IF i = 0 THEN <<>>
            ELSE LET prev == F[i - 1]
                 IN  IF Keep(s[i]) THEN Append(prev, s[i]) ELSE prev
    IN  F[Len(s)]

\* [Proj(x) for x in s]
Map(s, Proj(_)) == [i \in 1..Len(s) |-> Proj(s[i])]

VARIABLES
    groups,     \* directory: the group entries, in server order
    acct,       \* directory: number of person accounts matching each account filter
    pageCap,    \* entries per page of a paged search and of a cloud list endpoint
    lockShift,  \* directory: which raw lockoutTime value each locked entry delivers
    cloud,      \* cloud identity service: what its REST endpoints list
    conn,       \* self.conn: the shared connection's result buffer
    pc,         \* build_iam_dashboard: index of the metric evaluated next (0: not running)
    snap,       \* build_iam_dashboard: the entries of the dict built so far
    faults,     \* failing requests met so far by the running build
    failed,     \* indices of the metrics of the build whose requests failed
    ret,        \* what the last completed call returned or raised
    tiles,      \* dashboardApp.py: the numbers shown on the tiles
    codec,      \* a calendar time on its way through the timestamp conversions
    deadline,   \* build_iam_dashboard: metric in flight when the deadline passed (0: none)
    observability_queue,    \* iam_observability.py: the module-level queue the sessions share
    ui,         \* iam_ui.py: each session at its place in the script, with its locals
    chat        \* ProvisioningAgent.chat: the turn in progress and the calls it issued

envVars == <<groups, acct, pageCap, lockShift, cloud>>
\* the variables of the assistant applications
appVars == <<observability_queue, ui, chat>>
vars ==
    <<groups, acct, pageCap, lockShift, cloud, conn, pc, snap, faults, failed, ret,
      tiles, codec, deadline, observability_queue, ui, chat>>

(***************************************************************************)
(* iam_observability.py: queue.Queue().  items are the events in the       *)
(* queue, oldest first; unfinished_tasks is the queue's count of put()     *)
(* calls not yet matched by task_done().                                   *)
(***************************************************************************)
EmptyQueue == [items |-> <<>>, unfinished_tasks |-> 0]
\* observability_queue.put(event)
Put(q, event) ==
    [items |-> Append(q.items, event), unfinished_tasks |-> q.unfinished_tasks + 1]
\* no browser session has run the script
NoSessions == <<>>
\* ProvisioningAgent.chat is not running
NoChat == [pc |-> "none"]

(***************************************************************************)
(* The directory server: what a search with a given filter matches.        *)
(***************************************************************************)
\* the filters of the account scans of iamMetrics.py
AccountFilters == {"inactive", "service", "pwdNeverExpire", "lockout"}

\* lockoutTime as the connection delivers it for the i-th locked entry: a
\* tick count, zero, absent, or a value int() rejects
RawCycle == <<IntValue(25), BadValue, IntValue(0), NoValue>>
LockRaw(i) == RawCycle[((i - 1 + lockShift) % Len(RawCycle)) + 1]

HasNoOwner(g) == g.owner.kind = "none"
HasOwner(g) == g.owner.kind # "none"
HasNoMember(g) == g.members = <<>>
\* the entry lies below OU=BU_Groups
InBuGroups(g) == g.ou = "BU_Groups"

AccountEntry(f, i) ==
    [f |-> f, i |-> i, lockoutTime |-> IF f = "lockout" THEN LockRaw(i) ELSE NoValue]

\* every entry matching filter f, in server order
Matching(f) ==
    CASE f = "ownerless"  -> Filter(groups, HasNoOwner)
      [] f = "owned"      -> Filter(groups, HasOwner)
      [] f = "memberless" -> Filter(groups, HasNoMember)
      [] f = "allGroups"  -> groups
      [] f = "buGroups"   -> Filter(groups, InBuGroups)
      [] OTHER            -> [i \in 1..acct[f] |-> AccountEntry(f, i)]

\* The paged-results cookie (control 1.2.840.113556.1.4.319): absent/empty, or
\* an opaque value the server scopes to the search that produced it.
NoCookie == [f |-> "", k |-> 0]
Cookie(f, k) == [f |-> f, k |-> k]

\* page number k (from 0) of the entries matching f
ServerPage(f, k) ==
    SubSeq(Matching(f), k * pageCap + 1, Min((k + 1) * pageCap, Len(Matching(f))))

ServerNext(f, k) ==
    IF (k + 1) * pageCap < Len(Matching(f)) THEN Cookie(f, k + 1) ELSE NoCookie

(***************************************************************************)
(* self.conn.search(...): the connection's buffer after the call.  outcome *)
(* is what the server did with this request: "ok", or "err" (a non-success *)
(* result: no entries, no controls).  A request that raises leaves no      *)
(* buffer to read and is handled by the caller of this operator.           *)
(***************************************************************************)
\* search without paged_size: one response holding every match
SearchAll(f, outcome) ==
    IF outcome = "ok" THEN [entries |-> Matching(f), cookie |-> NoCookie]
    ELSE [entries |-> <<>>, cookie |-> NoCookie]

\* search with paged_size and paged_cookie
SearchPaged(f, cookie, outcome) ==
    IF outcome = "ok" /\ (cookie = NoCookie \/ cookie.f = f)
    THEN [entries |-> ServerPage(f, cookie.k), cookie |-> ServerNext(f, cookie.k)]
    ELSE [entries |-> <<>>, cookie |-> NoCookie]

\* requests one invocation can issue
MaxReq == Max(MaxMatch, MaxCloud) + 1
Outcomes == {"ok", "err", "raise"}
AllOk == [n \in 1..MaxReq |-> "ok"]
\* which requests of one invocation fail: at most `budget` of them
RECURSIVE FaultPlans(_)
FaultPlans(budget) ==
    IF budget <= 0 THEN {AllOk}
    ELSE FaultPlans(budget - 1) \cup
         {[p EXCEPT ![n] = o] : p \in FaultPlans(budget - 1), n \in 1..MaxReq,
                                o \in {"err", "raise"}}

(***************************************************************************)
(* Timestamp decoding of count_account_lockouts.  A calendar time is the   *)
(* number of microseconds since 1601-01-01T00:00:00Z (the resolution of a  *)
(* Python datetime); None is "no time".                                    *)
(***************************************************************************)
\* Python truthiness of an attribute value: None and 0 are falsy
Truthy(raw) == raw.tag = "bad" \/ (raw.tag = "int" /\ raw.v # 0)

\* int(x): the integer, or an exception for a value that is none
ParseInt(raw) == [ok |-> raw.tag = "int", v |-> raw.v]

\* a faulty variant: the decoding without its except clause
LockoutDecodeNoExcept(raw) ==
    IF ~Truthy(raw) THEN [raised |-> FALSE, dt |-> None]
    ELSE LET n == ParseInt(raw)
         IN  IF n.ok THEN [raised |-> FALSE, dt |-> Some(n.v \div 10)]
             ELSE [raised |-> TRUE, dt |-> None]

\* lines 284-290: lockout_dt stays None for a falsy value; otherwise
\* datetime(1601,1,1) + timedelta(microseconds=int(raw) // 10), and None when
\* that raises.  The result says whether an exception left the block.
LockoutDecode(raw) ==
    IF ~Truthy(raw) THEN [raised |-> FALSE, dt |-> None]
    ELSE LET n == ParseInt(raw)
         IN  IF n.ok THEN [raised |-> FALSE, dt |-> Some(n.v \div 10)]
             ELSE [raised |-> FALSE, dt |-> None]

(***************************************************************************)
(* datetime_to_filetime: int((dt - epoch_start).total_seconds() * 10**7).  *)
(* total_seconds() is the true division of the microsecond count by 10**6, *)
(* an IEEE-754 binary64 value; the product with 10**7 is rounded to        *)
(* binary64 again; int() truncates.  A positive binary64 value is kept as  *)
(* its significand, most significant bit first and starting with a 1, and  *)
(* the exponent of its last bit: the value is Bits * 2^e.                  *)
(***************************************************************************)
\* significand width of binary64
Precision == 53
\* 10**6 and 10**7
MicrosPerSecond == 1000000
TicksPerSecond == 10000000

\* the w binary digits of n < 2^w, most significant first
PadBits(n, w) == [j \in 1..w |-> (n \div (2 ^ (w - j))) % 2]

\* the binary digits of 0 <= n < 2^30 without leading zeros (none for 0)
IntBits(n) ==
    PadBits(n, CHOOSE k \in 0..30 : n < 2 ^ k /\ (k = 0 \/ 2 ^ (k - 1) <= n))

\* the integer a bit string denotes
BitsInt(b) ==
    LET F[i \in 0..Len(b)] == IF i = 0 THEN 0 ELSE 2 * F[i - 1] + b[i]
    IN  F[Len(b)]

\* b without its leading zeros
StripBits(b) ==
    IF \A i \in 1..Len(b) : b[i] = 0 THEN <<>>
    ELSE SubSeq(b, CHOOSE i \in 1..Len(b) : b[i] = 1 /\ \A j \in 1..(i - 1) : b[j] = 0,
                Len(b))

\* digits handled per step of the multiplication and of the division, small
\* enough for every intermediate value to stay below 2^31
MulChunk == 7
DivChunk == 11

RECURSIVE MulAdd(_, _, _, _)
\* the bit string of b[1..i] * c + carry, for integers 0 < c <= 10**7 and
\* 0 <= carry <= c
MulAdd(b, c, i, carry) ==
    IF i = 0 THEN IntBits(carry)
    ELSE LET lo == Max(1, i - MulChunk + 1)
             w == i - lo + 1
             v == BitsInt(SubSeq(b, lo, i)) * c + carry
         IN  MulAdd(b, c, lo - 1, v \div (2 ^ w)) \o PadBits(v % (2 ^ w), w)

\* b + 1 on a bit string; a carry out of the first bit lengthens it
BitsInc(b) == MulAdd(b, 1, Len(b), 1)

\* the bit string of b * c
BitsMul(b, c) == MulAdd(b, c, Len(b), 0)

\* round-half-to-even of the bit string b * 2^e to Precision bits; sticky
\* tells that the exact value lies above b * 2^e
RoundBits(b, e, sticky) ==
    IF Len(b) <= Precision THEN [m |-> b, e |-> e]
    ELSE LET keep == SubSeq(b, 1, Precision)
             drop == Len(b) - Precision
             half == b[Precision + 1] = 1
             rest == sticky \/ \E i \in (Precision + 2)..Len(b) : b[i] = 1
             up == half /\ (rest \/ keep[Precision] = 1)
             m == IF up THEN BitsInc(keep) ELSE keep
         IN  IF Len(m) > Precision
             THEN [m |-> SubSeq(m, 1, Precision), e |-> e + drop + 1]
             ELSE [m |-> m, e |-> e + drop]

RECURSIVE DivBits(_, _, _, _)
\* long division of r / d for 0 <= r < d <= 10**6: the quotient's digits
\* after the binary point are appended to acc (from its first 1 on) until acc
\* holds more than Precision digits; z counts the places after the point
DivBits(r, d, acc, z) ==
    IF Len(acc) > Precision THEN [bits |-> acc, z |-> z, rem |-> r]
    ELSE LET v == r * (2 ^ DivChunk)
         IN  DivBits(v % d, d, StripBits(acc \o PadBits(v \div d, DivChunk)),
                     z + DivChunk)

\* float(n / d) for integers 0 < n < 2^30, 0 < d <= 10**6
FloatDiv(n, d) ==
    LET q == DivBits(n % d, d, IntBits(n \div d), 0)
    IN  RoundBits(q.bits, 0 - q.z, q.rem # 0)

\* x * c in binary64, for a float x > 0 and an integer 0 < c <= 10**7
FloatMul(x, c) == RoundBits(BitsMul(x.m, c), x.e, FALSE)

\* int(x) for a float 0 < x < 2^31
FloatTrunc(x) ==
    IF x.e >= 0 THEN BitsInt(x.m) * (2 ^ x.e)
    ELSE IF Len(x.m) + x.e <= 0 THEN 0
    ELSE BitsInt(SubSeq(x.m, 1, Len(x.m) + x.e))

\* dt is a time at or after the epoch, in microseconds since the epoch
datetime_to_filetime(dt) ==
    IF dt = 0 THEN 0
    ELSE FloatTrunc(FloatMul(FloatDiv(dt, MicrosPerSecond), TicksPerSecond))

(***************************************************************************)
(* What one method invocation did: the value it returned (or that it       *)
(* raised), the connection buffer it left, the entries its loops iterated  *)
(* over and the cookies it sent, in order.                                 *)
(***************************************************************************)
NoReturn == [none |-> TRUE]
DeadConn == [entries |-> <<>>, cookie |-> NoCookie]

Returned(v, c, seen, reqs) ==
    [raised |-> FALSE, value |-> v, conn |-> c, seen |-> seen, reqs |-> reqs]
Raised(c, seen, reqs) ==
    [raised |-> TRUE, value |-> NoReturn, conn |-> c, seen |-> seen, reqs |-> reqs]

(***************************************************************************)
(* iamMetrics.py: the Active Directory metrics of IAMPlugin.               *)
(***************************************************************************)
CnOf(e) == [cn |-> e.cn]
IdOf(e) == [f |-> e.f, i |-> e.i]

list_ownerless_groups_ad(fo) ==
    IF fo[1] = "raise" THEN Raised(DeadConn, <<>>, <<NoCookie>>)
    ELSE LET c == SearchAll("ownerless", fo[1])
         IN  Returned(Map(c.entries, CnOf), c, c.entries, <<NoCookie>>)

\* for entry in self.conn.entries: total += 1; append while under max_results
MemberlessPage(results, entries, max_results) ==
    LET F[i \in 0..Len(entries)] ==
            IF i = 0 THEN results
            ELSE LET prev == F[i - 1]
                 IN  IF ~max_results.some \/ Len(prev) < max_results.v
                     THEN Append(prev, CnOf(entries[i]))
                     ELSE prev
    IN  F[Len(entries)]

\* a faulty variant: the scan that does not follow the cookie
MemberlessLoopFirstPage(max_results, fo, st) ==
    LET reqs == Append(st.reqs, st.cookie)
    IN  IF fo[st.n] = "raise" THEN Raised(DeadConn, st.seen, reqs)
        ELSE LET c == SearchPaged("memberless", st.cookie, fo[st.n])
             IN  Returned([count |-> st.total + Len(c.entries),
                           sample |-> MemberlessPage(st.results, c.entries, max_results)],
                          c, st.seen \o c.entries, reqs)

RECURSIVE MemberlessLoop(_, _, _)
MemberlessLoop(max_results, fo, st) ==
    LET reqs == Append(st.reqs, st.cookie)
    IN  IF fo[st.n] = "raise" THEN Raised(DeadConn, st.seen, reqs)
        ELSE LET c == SearchPaged("memberless", st.cookie, fo[st.n])
                 total == st.total + Len(c.entries)
                 results == MemberlessPage(st.results, c.entries, max_results)
                 seen == st.seen \o c.entries
             IN  IF c.cookie = NoCookie
                 THEN Returned([count |-> total, sample |-> results], c, seen, reqs)
                 ELSE MemberlessLoop(max_results, fo,
                        [total |-> total, results |-> results, cookie |-> c.cookie,
                         seen |-> seen, reqs |-> reqs, n |-> st.n + 1])

\* a faulty variant: the scan that starts from the cookie the connection
\* still holds
LoopStartStaleCookie ==
    [total |-> 0, results |-> <<>>, cookie |-> conn.cookie, seen |-> <<>>,
     reqs |-> <<>>, n |-> 1]

LoopStart ==
    [total |-> 0, results |-> <<>>, cookie |-> NoCookie, seen |-> <<>>,
     reqs |-> <<>>, n |-> 1]

count_memberless_groups(max_results, fo) == MemberlessLoop(max_results, fo, LoopStart)

\* the for loop of find_inactive_accounts: break once max_results is truthy
\* and reached
InactiveSample(entries, max_results) ==
    LET F[i \in 0..Len(entries)] ==
            IF i = 0 THEN <<>>
            ELSE LET prev == F[i - 1]
                 IN  IF max_results.some /\ max_results.v # 0
                        /\ Len(prev) >= max_results.v
                     THEN prev
                     ELSE Append(prev, IdOf(entries[i]))
    IN  F[Len(entries)]

find_inactive_accounts(max_results, fo) ==
    IF fo[1] = "raise" THEN Raised(DeadConn, <<>>, <<NoCookie>>)
    ELSE LET c == SearchPaged("inactive", NoCookie, fo[1])
         IN  Returned([count |-> Len(c.entries),
                       sample |-> InactiveSample(c.entries, max_results)],
                      c, c.entries, <<NoCookie>>)

\* a faulty variant: the count taken from the buffer as it is before the
\* method's own search
count_service_accountsStaleBuffer(max_results, fo) ==
    IF fo[1] = "raise" THEN Raised(DeadConn, <<>>, <<NoCookie>>)
    ELSE LET c == SearchPaged("service", NoCookie, fo[1])
             sample == Map(PySlice(c.entries, max_results), IdOf)
         IN  Returned([count |-> Len(conn.entries), sample |-> sample],
                      c, PySlice(c.entries, max_results), <<NoCookie>>)

count_service_accounts(max_results, fo) ==
    IF fo[1] = "raise" THEN Raised(DeadConn, <<>>, <<NoCookie>>)
    ELSE LET c == SearchPaged("service", NoCookie, fo[1])
             sample == Map(PySlice(c.entries, max_results), IdOf)
         IN  Returned([count |-> Len(c.entries), sample |-> sample],
                      c, PySlice(c.entries, max_results), <<NoCookie>>)

\* for entry in self.conn.entries: total += 1; append while under max_results
\* (max_results is an int here: len(sample) < max_results)
PwdPage(sample, entries, max_results) ==
    LET F[i \in 0..Len(entries)] ==
            IF i = 0 THEN sample
            ELSE LET prev == F[i - 1]
                 IN  IF Len(prev) < max_results.v
                     THEN Append(prev, IdOf(entries[i]))
                     ELSE prev
    IN  F[Len(entries)]

\* a faulty variant: the scan that ends with its first response, cookie or
\* not
PwdLoopIgnoringCookie(max_results, fo, st) ==
    LET reqs == Append(st.reqs, st.cookie)
    IN  IF fo[st.n] = "raise" THEN Raised(DeadConn, st.seen, reqs)
        ELSE LET c == SearchPaged("pwdNeverExpire", st.cookie, fo[st.n])
             IN  Returned([count |-> st.total + Len(c.entries),
                           sample |-> PwdPage(st.results, c.entries, max_results)],
                          c, st.seen \o c.entries, reqs)

RECURSIVE PwdLoop(_, _, _)
PwdLoop(max_results, fo, st) ==
    LET reqs == Append(st.reqs, st.cookie)
    IN  IF fo[st.n] = "raise" THEN Raised(DeadConn, st.seen, reqs)
        ELSE LET c == SearchPaged("pwdNeverExpire", st.cookie, fo[st.n])
                 total == st.total + Len(c.entries)
                 sample == PwdPage(st.results, c.entries, max_results)
                 seen == st.seen \o c.entries
             IN  IF c.cookie = NoCookie
                 THEN Returned([count |-> total, sample |-> sample], c, seen, reqs)
                 ELSE PwdLoop(max_results, fo,
                        [total |-> total, results |-> sample, cookie |-> c.cookie,
                         seen |-> seen, reqs |-> reqs, n |-> st.n + 1])

count_password_never_expire_accounts(max_results, fo) ==
    PwdLoop(max_results, fo, LoopStart)

LockoutRecord(e) ==
    [f |-> e.f, i |-> e.i, lockoutTime_raw |-> e.lockoutTime,
     lockoutTime |-> LockoutDecode(e.lockoutTime).dt]

DecodeRaises(e) == LockoutDecode(e.lockoutTime).raised

count_account_lockouts(max_results, fo) ==
    IF fo[1] = "raise" THEN Raised(DeadConn, <<>>, <<NoCookie>>)
    ELSE LET c == SearchPaged("lockout", NoCookie, fo[1])
             shown == PySlice(c.entries, max_results)
         IN  IF Filter(shown, DecodeRaises) # <<>>
             THEN Raised(c, shown, <<NoCookie>>)
             ELSE Returned([count |-> Len(c.entries),
                            sample |-> Map(shown, LockoutRecord)],
                           c, shown, <<NoCookie>>)

(***************************************************************************)
(* AD_provisioning_Agent.py: the classifiers of AD_Provisioning_Agent.     *)
(* Each returns json.dumps of a dict, modelled as the dict.                *)
(***************************************************************************)
\* A managedBy / member value: the attribute is absent ("none"), or it is a
\* DN that resolves to no user entry ("dangling"), or the DN of a user entry
\* whose userAccountControl reads uac.
NoRef == [kind |-> "none", uac |-> NoValue]
DanglingRef == [kind |-> "dangling", uac |-> NoValue]
UserRef(uac) == [kind |-> "user", uac |-> uac]

\* self.conn.search(search_base=dn, search_filter='(objectClass=user)'): the
\* entries of the response
Lookup(ref, outcome) ==
    IF outcome = "ok" /\ ref.kind = "user" THEN <<[uac |-> ref.uac]>> ELSE <<>>

\* a faulty variant: the check that takes any flag from 0x2 upwards for
\* ACCOUNTDISABLE
DisabledBitAnyHigherFlag(uac) == uac >= 2

\* uac & 0x2 (ACCOUNTDISABLE)
DisabledBit(uac) == (uac \div 2) % 2 = 1

\* (userAccountControl:1.2.840.113556.1.4.803:=65536): the bit-and matching
\* rule with the one-bit value DONT_EXPIRE_PASSWORD
DontExpirePassword == 65536
PasswordNeverExpiresBit(uac) == (uac \div DontExpirePassword) % 2 = 1

groups_without_owner(action, count, fo) ==
    IF fo[1] = "raise"
    THEN Returned([status |-> "error", message |-> "exception"], DeadConn, <<>>,
                  <<NoCookie>>)
    ELSE
    LET c == SearchAll("ownerless", fo[1])
        ownerless_groups == Map(c.entries, CnOf)
        total == Len(ownerless_groups)
        limited_results == IF count > 0 THEN PySliceInt(ownerless_groups, count)
                           ELSE ownerless_groups
        result ==
            CASE action = "count" -> [status |-> "success", total |-> total]
              [] action = "list"  -> [status |-> "success", groups |-> limited_results,
                                      shown |-> Len(limited_results)]
              [] action = "both"  -> [status |-> "success", total |-> total,
                                      groups |-> limited_results,
                                      shown |-> Len(limited_results)]
              [] OTHER            -> [status |-> "error", message |-> "Invalid action"]
    IN  IF c.entries = <<>>
        THEN Returned([status |-> "success", total |-> 0, groups |-> <<>>], c, <<>>,
                      <<NoCookie>>)
        ELSE Returned(result, c, c.entries, <<NoCookie>>)

\* groups_with_zero_members (AD_provisioning_Agent.py): one search of all
\* groups, the memberless ones kept; the message is represented by the number
\* it states
groups_with_zero_members(count, fo) ==
    IF fo[1] = "raise"
    THEN Returned([status |-> "error", message |-> "exception"], DeadConn, <<>>,
                  <<NoCookie>>)
    ELSE
    LET c == SearchAll("allGroups", fo[1])
        zero_member_groups == Map(Filter(c.entries, HasNoMember), CnOf)
        total == Len(zero_member_groups)
        limited_results == IF count > 0 THEN PySliceInt(zero_member_groups, count)
                           ELSE zero_member_groups
        result ==
            IF count = 0
            THEN [status |-> "success", total |-> total, groups |-> <<>>,
                  message |-> total]
            ELSE [status |-> "success", total |-> total,
                  shown |-> Len(limited_results), groups |-> limited_results]
    IN  IF c.entries = <<>> \/ total = 0
        THEN Returned([status |-> "success", total |-> 0, groups |-> <<>>], c,
                      c.entries, <<NoCookie>>)
        ELSE Returned(result, c, c.entries, <<NoCookie>>)

\* cn.startswith(prefix): names and prefixes are sequences of characters
StartsWith(cn, prefix) ==
    Len(prefix) <= Len(cn) /\ SubSeq(cn, 1, Len(prefix)) = prefix

\* a faulty variant: the search of the whole directory instead of
\* OU=BU_Groups
groups_not_following_naming_conventionAnywhere(allowed_prefixes, count, fo) ==
    IF fo[1] = "raise"
    THEN Returned([status |-> "error", message |-> "exception"], DeadConn, <<>>,
                  <<NoCookie>>)
    ELSE
    LET c == SearchAll("allGroups", fo[1])
        Compliant(entry) == \E prefix \in allowed_prefixes : StartsWith(entry.cn, prefix)
        NonCompliant(entry) == ~Compliant(entry)
        non_compliant == Map(Filter(c.entries, NonCompliant), CnOf)
        total == Len(non_compliant)
        result ==
            IF count = 0
            THEN [status |-> "success", total |-> total, groups |-> <<>>,
                  message |-> "Specify count"]
            ELSE [status |-> "success", total |-> total, shown |-> Min(count, total),
                  groups |-> PySliceInt(non_compliant, count)]
    IN  IF c.entries = <<>> \/ total = 0
        THEN Returned([status |-> "success", total |-> 0, groups |-> <<>>], c,
                      c.entries, <<NoCookie>>)
        ELSE Returned(result, c, c.entries, <<NoCookie>>)

\* groups_not_following_naming_convention (AD_provisioning_Agent.py): one
\* search of the groups below OU=BU_Groups
groups_not_following_naming_convention(allowed_prefixes, count, fo) ==
    IF fo[1] = "raise"
    THEN Returned([status |-> "error", message |-> "exception"], DeadConn, <<>>,
                  <<NoCookie>>)
    ELSE
    LET c == SearchAll("buGroups", fo[1])
        Compliant(entry) == \E prefix \in allowed_prefixes : StartsWith(entry.cn, prefix)
        NonCompliant(entry) == ~Compliant(entry)
        non_compliant == Map(Filter(c.entries, NonCompliant), CnOf)
        total == Len(non_compliant)
        result ==
            IF count = 0
            THEN [status |-> "success", total |-> total, groups |-> <<>>,
                  message |-> "Specify count"]
            ELSE [status |-> "success", total |-> total, shown |-> Min(count, total),
                  groups |-> PySliceInt(non_compliant, count)]
    IN  IF c.entries = <<>> \/ total = 0
        THEN Returned([status |-> "success", total |-> 0, groups |-> <<>>], c,
                      c.entries, <<NoCookie>>)
        ELSE Returned(result, c, c.entries, <<NoCookie>>)

\* a faulty variant: the loop that takes an owner it cannot resolve for a
\* disabled one
InactiveOwnerLoopCountsUnresolved(found, fo) ==
    LET F[i \in 0..Len(found)] ==
            IF i = 0
            THEN [failed |-> FALSE, list |-> <<>>, seen |-> <<>>,
                  reqs |-> <<NoCookie>>, conn |-> [entries |-> found, cookie |-> NoCookie]]
            ELSE
            LET prev == F[i - 1]
                group == found[i]
                reqs == Append(prev.reqs, NoCookie)
                seen == Append(prev.seen, group)
                entries == Lookup(group.owner, fo[i + 1])
                c == [entries |-> entries, cookie |-> NoCookie]
            IN  IF prev.failed THEN prev
                ELSE IF group.owner.kind = "none"
                THEN [prev EXCEPT !.seen = seen]
                ELSE IF fo[i + 1] = "raise"
                THEN [prev EXCEPT !.failed = TRUE, !.seen = seen, !.reqs = reqs,
                                  !.conn = DeadConn]
                ELSE IF entries = <<>>
                THEN [prev EXCEPT !.list = Append(prev.list,
                                             [group |-> group.cn, status |-> "disabled"]),
                                  !.seen = seen, !.reqs = reqs, !.conn = c]
                ELSE LET uac == ParseInt(entries[1].uac)
                     IN  IF ~uac.ok
                         THEN [prev EXCEPT !.failed = TRUE, !.seen = seen,
                                           !.reqs = reqs, !.conn = c]
                         ELSE [prev EXCEPT
                                 !.list = IF DisabledBit(uac.v)
                                          THEN Append(prev.list,
                                                 [group |-> group.cn, status |-> "disabled"])
                                          ELSE prev.list,
                                 !.seen = seen, !.reqs = reqs, !.conn = c]
    IN  F[Len(found)]

\* The loop of list_inactive_owner_groups over the groups the first search
\* returned (the list object the for statement took); F[i] is the loop after
\* i groups.  failed: an exception left the loop for the except clause.
InactiveOwnerLoop(found, fo) ==
    LET F[i \in 0..Len(found)] ==
            IF i = 0
            THEN [failed |-> FALSE, list |-> <<>>, seen |-> <<>>,
                  reqs |-> <<NoCookie>>, conn |-> [entries |-> found, cookie |-> NoCookie]]
            ELSE
            LET prev == F[i - 1]
                group == found[i]
                reqs == Append(prev.reqs, NoCookie)
                seen == Append(prev.seen, group)
                entries == Lookup(group.owner, fo[i + 1])
                c == [entries |-> entries, cookie |-> NoCookie]
            IN  IF prev.failed THEN prev
                ELSE IF group.owner.kind = "none"
                THEN [prev EXCEPT !.seen = seen]
                ELSE IF fo[i + 1] = "raise"
                THEN [prev EXCEPT !.failed = TRUE, !.seen = seen, !.reqs = reqs,
                                  !.conn = DeadConn]
                ELSE IF entries = <<>>
                THEN [prev EXCEPT !.seen = seen, !.reqs = reqs, !.conn = c]
                ELSE LET uac == ParseInt(entries[1].uac)
                     IN  IF ~uac.ok
                         THEN [prev EXCEPT !.failed = TRUE, !.seen = seen,
                                           !.reqs = reqs, !.conn = c]
                         ELSE [prev EXCEPT
                                 !.list = IF DisabledBit(uac.v)
                                          THEN Append(prev.list,
                                                 [group |-> group.cn, status |-> "disabled"])
                                          ELSE prev.list,
                                 !.seen = seen, !.reqs = reqs, !.conn = c]
    IN  F[Len(found)]

list_inactive_owner_groups(limit, count_only, fo) ==
    IF fo[1] = "raise"
    THEN Returned([status |-> "error", message |-> "exception"], DeadConn, <<>>,
                  <<NoCookie>>)
    ELSE
    LET first == SearchAll("owned", fo[1])
        loop == InactiveOwnerLoop(first.entries, fo)
        inactive_owner_groups == loop.list
        total == Len(inactive_owner_groups)
    IN  IF first.entries = <<>>
        THEN Returned([status |-> "success", total |-> 0, groups |-> <<>>], first, <<>>,
                      <<NoCookie>>)
        ELSE IF loop.failed
        THEN Returned([status |-> "error", message |-> "exception"], loop.conn,
                      loop.seen, loop.reqs)
        ELSE IF total = 0
        THEN Returned([status |-> "success", total |-> 0, groups |-> <<>>], loop.conn,
                      loop.seen, loop.reqs)
        ELSE IF count_only
        THEN Returned([status |-> "success", total |-> total], loop.conn, loop.seen,
                      loop.reqs)
        ELSE Returned([status |-> "success", total |-> total,
                       shown |-> Min(limit, total),
                       groups |-> PySliceInt(inactive_owner_groups, limit)],
                      loop.conn, loop.seen, loop.reqs)

\* a faulty variant: the member loop that reads self.conn.entries[0] without
\* testing for an empty response
MemberLoopNoEmptyTest(effective_members, fo) ==
    LET F[i \in 0..Len(effective_members)] ==
            IF i = 0
            THEN [raised |-> FALSE, results |-> <<>>, reqs |-> <<NoCookie>>,
                  conn |-> DeadConn]
            ELSE
            LET prev == F[i - 1]
                reqs == Append(prev.reqs, NoCookie)
                entries == Lookup(effective_members[i], fo[i + 1])
                c == [entries |-> entries, cookie |-> NoCookie]
            IN  IF prev.raised THEN prev
                ELSE IF fo[i + 1] = "raise"
                THEN [prev EXCEPT !.raised = TRUE, !.reqs = reqs, !.conn = DeadConn]
                ELSE IF entries = <<>>
                THEN [prev EXCEPT !.raised = TRUE, !.reqs = reqs, !.conn = c]
                ELSE LET uac == ParseInt(entries[1].uac)
                     IN  IF ~uac.ok
                         THEN [prev EXCEPT !.raised = TRUE, !.reqs = reqs, !.conn = c]
                         ELSE [prev EXCEPT
                                 !.results = Append(prev.results,
                                     [member |-> i,
                                      status |-> IF DisabledBit(uac.v) THEN "disabled"
                                                 ELSE "active"]),
                                 !.reqs = reqs, !.conn = c]
    IN  F[Len(effective_members)]

\* the member loop of show_group_members; F[i] is the loop after i members
MemberLoop(effective_members, fo) ==
    LET F[i \in 0..Len(effective_members)] ==
            IF i = 0
            THEN [raised |-> FALSE, results |-> <<>>, reqs |-> <<NoCookie>>,
                  conn |-> DeadConn]
            ELSE
            LET prev == F[i - 1]
                reqs == Append(prev.reqs, NoCookie)
                entries == Lookup(effective_members[i], fo[i + 1])
                c == [entries |-> entries, cookie |-> NoCookie]
            IN  IF prev.raised THEN prev
                ELSE IF fo[i + 1] = "raise"
                THEN [prev EXCEPT !.raised = TRUE, !.reqs = reqs, !.conn = DeadConn]
                ELSE IF entries = <<>>
                THEN [prev EXCEPT !.results = Append(prev.results,
                                                [member |-> i, status |-> "unknown"]),
                                  !.reqs = reqs, !.conn = c]
                ELSE LET uac == ParseInt(entries[1].uac)
                     IN  IF ~uac.ok
                         THEN [prev EXCEPT !.raised = TRUE, !.reqs = reqs, !.conn = c]
                         ELSE [prev EXCEPT
                                 !.results = Append(prev.results,
                                     [member |-> i,
                                      status |-> IF DisabledBit(uac.v) THEN "disabled"
                                                 ELSE "active"]),
                                 !.reqs = reqs, !.conn = c]
    IN  F[Len(effective_members)]

show_group_members(common_name, count, list_all, fo) ==
    IF fo[1] = "raise" THEN Raised(DeadConn, <<>>, <<NoCookie>>)
    ELSE
    LET IsNamed(g) == g.cn = common_name
        first == IF fo[1] = "ok"
                 THEN [entries |-> Filter(groups, IsNamed), cookie |-> NoCookie]
                 ELSE DeadConn
        members == first.entries[1].members
        total == Len(members)
        effective_members == IF list_all \/ count <= 0 THEN members
                             ELSE PySliceInt(members, count)
        loop == MemberLoop(effective_members, fo)
    IN  IF first.entries = <<>>
        THEN Returned([status |-> "error", message |-> "No group found"], first, <<>>,
                      <<NoCookie>>)
        ELSE IF total = 0
        THEN Returned([status |-> "success", total |-> 0, members |-> <<>>], first,
                      first.entries, <<NoCookie>>)
        ELSE IF loop.raised
        THEN Raised(loop.conn, effective_members, loop.reqs)
        ELSE Returned([status |-> "success", total |-> total,
                       shown |-> Len(loop.results), members |-> loop.results],
                      loop.conn, effective_members, loop.reqs)

(***************************************************************************)
(* iamMetrics.py: the Entra ID metrics of IAMPlugin.  A request is         *)
(* answered "ok" (a JSON body with "value"), "err" (a non-success status   *)
(* with a JSON error body) or it raises (no connection, a non-JSON body).  *)
(***************************************************************************)
GraphList(n) == [i \in 1..n |-> [id |-> i]]

\* page number k (from 0) of a list endpoint: the server puts at most pageCap
\* items in one response (every $top the callers pass is larger)
GraphPage(items, k) ==
    SubSeq(items, k * pageCap + 1, Min((k + 1) * pageCap, Len(items)))

\* resp.json() of page k: "value" and, when items remain, "@odata.nextLink"
GraphPageJson(items, k, outcome) ==
    IF outcome # "ok" THEN [error |-> "Forbidden"]
    ELSE IF (k + 1) * pageCap < Len(items)
    THEN [value |-> GraphPage(items, k), nextLink |-> k + 1]
    ELSE [value |-> GraphPage(items, k)]

\* resp.json() of the request of the endpoint's url
GraphJson(items, outcome) == GraphPageJson(items, 0, outcome)

\* owners_resp.json() of page j (from 1) of /groups/{id}/owners: the pages
\* are the ones the tenant holds for the group, the last without a next link
OwnersJson(g, j, outcome) ==
    IF outcome # "ok" THEN [error |-> "Forbidden"]
    ELSE IF j < Len(g.owners)
    THEN [value |-> g.owners[j], nextLink |-> j + 1]
    ELSE [value |-> g.owners[j]]

get_risky_users(fo) ==
    IF fo[1] = "raise" THEN Raised(conn, <<>>, <<"riskyUsers">>)
    ELSE Returned(GraphJson(GraphList(cloud.risky), fo[1]), conn, <<>>, <<"riskyUsers">>)

get_protected_users(fo) ==
    IF fo[1] = "raise" THEN Raised(conn, <<>>, <<"riskDetections">>)
    ELSE Returned(GraphJson(GraphList(cloud.protected), fo[1]), conn, <<>>,
                  <<"riskDetections">>)

get_privileged_accounts(fo) ==
    IF fo[1] = "raise" THEN Raised(conn, <<>>, <<"directoryRoles">>)
    ELSE Returned(GraphJson(GraphList(cloud.privileged), fo[1]), conn, <<>>,
                  <<"directoryRoles">>)

\* the url of a request: the group listing, or the owners of one group
GroupsUrl == [url |-> "groups", id |-> 0]
OwnersUrl(g) == [url |-> "owners", id |-> g.id]

\* for g in groups: one owners request each; F[i] is the loop after i groups
get_ownerless_groups(fo) ==
    IF fo[1] = "raise" THEN Raised(conn, <<>>, <<GroupsUrl>>)
    ELSE
    LET listed == Get(GraphJson(cloud.groups, fo[1]), "value", <<>>)
        F[i \in 0..Len(listed)] ==
            IF i = 0 THEN [raised |-> FALSE, ownerless |-> <<>>, reqs |-> <<GroupsUrl>>]
            ELSE
            LET prev == F[i - 1]
                reqs == Append(prev.reqs, OwnersUrl(listed[i]))
                o == Get(OwnersJson(listed[i], 1, fo[i + 1]), "value", <<>>)
            IN  IF prev.raised THEN prev
                ELSE IF fo[i + 1] = "raise"
                THEN [raised |-> TRUE, ownerless |-> prev.ownerless, reqs |-> reqs]
                ELSE [raised |-> FALSE,
                      ownerless |-> IF Len(o) = 0
                                    THEN Append(prev.ownerless, [id |-> listed[i].id])
                                    ELSE prev.ownerless,
                      reqs |-> reqs]
        end == F[Len(listed)]
    IN  IF end.raised THEN Raised(conn, listed, end.reqs)
        ELSE Returned([value |-> end.ownerless], conn, listed, end.reqs)

\* the applications one conditional-access policy covers
PolicyApps(p, all_apps) ==
    IF p.all THEN all_apps \ p.exclude ELSE p.include \ p.exclude

get_mfa_disabled_apps(fo) ==
    IF fo[1] = "raise" THEN Raised(conn, <<>>, <<"servicePrincipals">>)
    ELSE IF fo[1] = "err"
    THEN Returned([error |-> "Error fetching applications"], conn, <<>>,
                  <<"servicePrincipals">>)
    ELSE IF fo[2] = "raise" THEN Raised(conn, <<>>, <<"servicePrincipals", "policies">>)
    ELSE IF fo[2] = "err"
    THEN Returned([error |-> "Error fetching CA policies"], conn, <<>>,
                  <<"servicePrincipals", "policies">>)
    ELSE
    LET apps == Get(GraphJson(GraphList(cloud.apps), fo[1]), "value", <<>>)
        policies == Get(GraphJson(cloud.policies, fo[2]), "value", <<>>)
        all_apps == {apps[i].id : i \in 1..Len(apps)}
        mfa_apps == UNION {PolicyApps(policies[j], all_apps) :
                             j \in {k \in 1..Len(policies) : policies[k].mfa}}
        NotCovered(a) == a.id \notin mfa_apps
        apps_without_mfa == Filter(apps, NotCovered)
    IN  Returned([count |-> Len(apps_without_mfa), apps_without_mfa |-> apps_without_mfa],
                 conn, apps, <<"servicePrincipals", "policies">>)

(***************************************************************************)
(* provisioning_orch.py: the ownerless-groups operations of                *)
(* ProvisioningAgent.  Requests are numbered in the order they are issued; *)
(* fo[n] is what happens to request n.                                     *)
(***************************************************************************)
\* requests one invocation can issue: a listing page and two owners pages
\* for every group at most, or the one listing page of an empty tenant
CloudReq == 3 * MaxCloud + 1
CloudOk == [n \in 1..CloudReq |-> "ok"]
RECURSIVE CloudPlans(_)
CloudPlans(budget) ==
    IF budget <= 0 THEN {CloudOk}
    ELSE CloudPlans(budget - 1) \cup
         {[p EXCEPT ![n] = o] : p \in CloudPlans(budget - 1), n \in 1..CloudReq,
                                o \in {"err", "raise"}}

\* while next_owners: the owners pages of group g, after the requests reqs0;
\* P[j] is the loop after j pages
OwnerProbe(g, fo, reqs0) ==
    LET P[j \in 0..Len(g.owners)] ==
            IF j = 0
            THEN [done |-> FALSE, has_owner |-> FALSE, raised |-> FALSE, reqs |-> reqs0]
            ELSE
            LET prev == P[j - 1]
                reqs == Append(prev.reqs, OwnersUrl(g))
                n == Len(reqs)
                owners_payload == OwnersJson(g, j, fo[n])
                owners_vals == Get(owners_payload, "value", <<>>)
            IN  IF prev.done THEN prev
                ELSE IF fo[n] = "raise"
                THEN [done |-> TRUE, has_owner |-> FALSE, raised |-> TRUE, reqs |-> reqs]
                ELSE IF fo[n] = "err"
                THEN [done |-> TRUE, has_owner |-> TRUE, raised |-> FALSE, reqs |-> reqs]
                ELSE IF owners_vals # <<>>
                THEN [done |-> TRUE, has_owner |-> TRUE, raised |-> FALSE, reqs |-> reqs]
                ELSE [done |-> "nextLink" \notin DOMAIN owners_payload,
                      has_owner |-> FALSE, raised |-> FALSE, reqs |-> reqs]
    IN  P[Len(g.owners)]

\* while url [and len(ownerless) < max_results]: the listing pages and, for
\* each listed group, its owners pages; max_results is None for the loop
\* without a bound.  F[i] is the loop after group i of the listing; status is
\* "run", "stop" (the bound is reached), "err" (a listing request is not
\* answered with 200) or "raised"
OwnerlessLoop(max_results, fo) ==
    LET all == cloud.groups
        Full(ownerless) == max_results.some /\ Len(ownerless) >= max_results.v
        Start == [status |-> "run", ownerless |-> <<>>, reqs |-> <<>>, seen |-> <<>>]
        \* the request of the next listing page
        Fetch(st) ==
            LET reqs == Append(st.reqs, GroupsUrl)
                n == Len(reqs)
            IN  IF fo[n] = "raise" THEN [st EXCEPT !.status = "raised", !.reqs = reqs]
                ELSE IF fo[n] = "err" THEN [st EXCEPT !.status = "err", !.reqs = reqs]
                ELSE [st EXCEPT !.reqs = reqs]
        F[i \in 0..Len(all)] ==
            IF i = 0 THEN Start
            ELSE
            LET prev == F[i - 1]
                page == IF (i - 1) % pageCap = 0 THEN Fetch(prev) ELSE prev
                probe == OwnerProbe(all[i], fo, page.reqs)
            IN  IF prev.status # "run" THEN prev
                ELSE IF Full(prev.ownerless) THEN [prev EXCEPT !.status = "stop"]
                ELSE IF page.status # "run" THEN page
                ELSE IF probe.raised
                THEN [page EXCEPT !.status = "raised", !.reqs = probe.reqs,
                                  !.seen = Append(@, all[i])]
                ELSE [page EXCEPT !.reqs = probe.reqs, !.seen = Append(@, all[i]),
                                  !.ownerless = IF probe.has_owner THEN @
                                                ELSE Append(@, [id |-> all[i].id])]
        end == F[Len(all)]
    IN  \* a tenant without groups: the one request of the empty listing
        IF all = <<>> /\ ~Full(<<>>) THEN Fetch(Start) ELSE end

\* count_ownerless_groups: no try; a listing error returns the error string
count_ownerless_groups(fo) ==
    LET end == OwnerlessLoop(None, fo)
    IN  IF end.status = "raised" THEN Raised(conn, end.seen, end.reqs)
        ELSE IF end.status = "err"
        THEN Returned([error |-> "Error listing groups"], conn, end.seen, end.reqs)
        ELSE Returned([count |-> Len(end.ownerless), groups |-> end.ownerless],
                      conn, end.seen, end.reqs)

\* list_ownerless_groups(max_results): the loop inside try / except
list_ownerless_groups(max_results, fo) ==
    LET end == OwnerlessLoop(Some(max_results), fo)
    IN  IF end.status = "raised"
        THEN Returned([status |-> "error", message |-> "exception"], conn, end.seen,
                      end.reqs)
        ELSE IF end.status = "err"
        THEN Returned([status |-> "error", message |-> "Error fetching groups"],
                      conn, end.seen, end.reqs)
        ELSE Returned([status |-> "success", total |-> Len(end.ownerless),
                       groups |-> end.ownerless],
                      conn, end.seen, end.reqs)

\* o.get("accountEnabled", True)
OwnerActive(o) == Get(o, "accountEnabled", TRUE)

\* list_groups_with_inactive_owners: one GET of /groups, then one GET of
\* /groups/{id}/owners for each group of that response; F[i] is the loop
\* after i groups.  An exception anywhere is caught by the except clause.
list_groups_with_inactive_owners(limit, count_only, fo) ==
    IF fo[1] = "raise"
    THEN Returned([status |-> "error", message |-> "Unexpected exception"], conn, <<>>,
                  <<GroupsUrl>>)
    ELSE IF fo[1] = "err"
    THEN Returned([status |-> "error", message |-> "Error fetching groups"], conn, <<>>,
                  <<GroupsUrl>>)
    ELSE
    LET listed == Get(GraphJson(cloud.groups, fo[1]), "value", <<>>)
        F[i \in 0..Len(listed)] ==
            IF i = 0
            THEN [raised |-> FALSE, inactive_groups |-> <<>>, reqs |-> <<GroupsUrl>>,
                  seen |-> <<>>]
            ELSE
            LET prev == F[i - 1]
                group == listed[i]
                reqs == Append(prev.reqs, OwnersUrl(group))
                seen == Append(prev.seen, group)
                owners == Get(OwnersJson(group, 1, fo[i + 1]), "value", <<>>)
                active_owners == Filter(owners, OwnerActive)
            IN  IF prev.raised THEN prev
                ELSE IF fo[i + 1] = "raise"
                THEN [prev EXCEPT !.raised = TRUE, !.reqs = reqs, !.seen = seen]
                ELSE IF fo[i + 1] = "err" \/ owners = <<>> \/ active_owners # <<>>
                THEN [prev EXCEPT !.reqs = reqs, !.seen = seen]
                ELSE [prev EXCEPT !.reqs = reqs, !.seen = seen,
                                  !.inactive_groups = Append(@, [groupId |-> group.id])]
        end == F[Len(listed)]
        total == Len(end.inactive_groups)
    IN  IF end.raised
        THEN Returned([status |-> "error", message |-> "Unexpected exception"], conn,
                      end.seen, end.reqs)
        ELSE IF count_only
        THEN Returned([status |-> "success", total |-> total, items |-> <<>>], conn,
                      end.seen, end.reqs)
        ELSE Returned([status |-> "success", total |-> total,
                       items |-> IF limit > 0 THEN PySliceInt(end.inactive_groups, limit)
                                 ELSE end.inactive_groups],
                      conn, end.seen, end.reqs)

\* min(max_results, 999): the largest $top the listings ask for
MaxTop == 999

UsersUrl(k) == [url |-> "users", page |-> k]
GroupsListUrl(k) == [url |-> "groups", page |-> k]

\* resp.json() of page k (from 0) of a listing requested with $top=top: the
\* server puts at most pageCap and at most top items in one response, and
\* "@odata.nextLink" when items remain
TopPageJson(items, top, k, outcome) ==
    LET size == Min(top, pageCap)
    IN  IF outcome # "ok" THEN [error |-> "Forbidden"]
        ELSE IF (k + 1) * size < Len(items)
        THEN [value |-> SubSeq(items, k * size + 1, (k + 1) * size), nextLink |-> k + 1]
        ELSE [value |-> SubSeq(items, k * size + 1, Len(items))]

\* a faulty variant: the listing that reads the first page only
ListLoopFirstPage(items, first_url, max_results, fo) ==
    IF ~(0 < max_results) THEN [status |-> "done", rows |-> <<>>, reqs |-> <<>>]
    ELSE IF fo[1] = "raise"
    THEN [status |-> "raised", rows |-> <<>>, reqs |-> <<first_url>>]
    ELSE IF fo[1] = "err"
    THEN [status |-> "err", rows |-> <<>>, reqs |-> <<first_url>>]
    ELSE [status |-> "done",
          rows |-> PySliceInt(Get(TopPageJson(items, Min(max_results, MaxTop), 0, "ok"),
                                  "value", <<>>), max_results),
          reqs |-> <<first_url>>]

\* while url and len(rows) < max_results: F[k] is the loop after k requests;
\* status is "run" (a next link is held), "done", "err" (a response without
\* status 200) or "raised"
ListLoop(items, first_url, max_results, fo) ==
    LET page_size == Min(max_results, MaxTop)
        F[k \in 0..(Len(items) + 1)] ==
            IF k = 0 THEN [status |-> "run", rows |-> <<>>, reqs |-> <<>>]
            ELSE
            LET prev == F[k - 1]
                reqs == Append(prev.reqs, [first_url EXCEPT !.page = k - 1])
                payload == TopPageJson(items, page_size, k - 1, fo[k])
                value == Get(payload, "value", <<>>)
                rows == prev.rows \o PySliceInt(value, max_results - Len(prev.rows))
            IN  IF prev.status # "run" THEN prev
                ELSE IF ~(Len(prev.rows) < max_results)
                THEN [prev EXCEPT !.status = "done"]
                ELSE IF fo[k] = "raise"
                THEN [prev EXCEPT !.status = "raised", !.reqs = reqs]
                ELSE IF fo[k] = "err"
                THEN [prev EXCEPT !.status = "err", !.reqs = reqs]
                ELSE [status |-> IF "nextLink" \in DOMAIN payload THEN "run" ELSE "done",
                      rows |-> rows, reqs |-> reqs]
    IN  F[Len(items) + 1]

UserRow(u) == [Id |-> u.id]
GroupRow(g) == [GroupId |-> g.id]

\* list_users: no try; the returned string is the JSON array of the rows or
\* the error text
list_users(max_results, fo) ==
    LET end == ListLoop(GraphList(cloud.users), UsersUrl(0), max_results, fo)
    IN  IF end.status = "raised" THEN Raised(conn, end.rows, end.reqs)
        ELSE IF end.status = "err"
        THEN Returned([error |-> "Error listing users"], conn, end.rows, end.reqs)
        ELSE Returned([rows |-> Map(end.rows, UserRow)], conn, end.rows, end.reqs)

list_groups(max_results, fo) ==
    LET end == ListLoop(cloud.groups, GroupsListUrl(0), max_results, fo)
    IN  IF end.status = "raised" THEN Raised(conn, end.rows, end.reqs)
        ELSE IF end.status = "err"
        THEN Returned([error |-> "Error listing groups"], conn, end.rows, end.reqs)
        ELSE Returned([rows |-> Map(end.rows, GroupRow)], conn, end.rows, end.reqs)

(***************************************************************************)
(* A call and its environment: the requests that fail are the ones the     *)
(* call really issues.                                                     *)
(***************************************************************************)
FaultsMet(fo, r) == Cardinality({n \in 1..Len(r.reqs) : fo[n] # "ok"})
Canonical(fo, r) == \A n \in DOMAIN fo : n > Len(r.reqs) => fo[n] = "ok"

\* faulted: whether a request of the call failed
CallRecord2(op, limit, mode, fo, r) ==
    [op |-> op, limit |-> limit, mode |-> mode, raised |-> r.raised,
     value |-> r.value, seen |-> r.seen, reqs |-> r.reqs,
     faulted |-> FaultsMet(fo, r) > 0]

CallRecord(op, limit, fo, r) == CallRecord2(op, limit, "", fo, r)

NoCall == CallRecord("none", None, AllOk, Returned(NoReturn, DeadConn, <<>>, <<>>))
NoCodec == [stage |-> "none", t |-> 0, ticks |-> 0, back |-> None]
NoTiles == [state |-> "none"]

\* the max_results / count / limit values a caller passes
IntLimits == {Some(n) : n \in -1..MaxLimit}
Limits == {None} \cup IntLimits

(***************************************************************************)
(* build_iam_dashboard: the dict literal evaluates its eleven entries in   *)
(* order; an exception raised by any of them leaves the method.            *)
(***************************************************************************)
Metrics ==
    <<"risky_users", "protected_users", "privileged_accounts",
      "ownerless_groups_entra", "mfa_disabled_apps", "ownerless_groups_ad",
      "memberless_groups", "inactive_accounts", "service_accounts",
      "pwd_never_expire", "account_lockouts">>

\* max_results=10 of the AD metrics of the dashboard
DashMaxResults == 10

MetricCall(k, fo) ==
    CASE k = 1  -> get_risky_users(fo)
      [] k = 2  -> get_protected_users(fo)
      [] k = 3  -> get_privileged_accounts(fo)
      [] k = 4  -> get_ownerless_groups(fo)
      [] k = 5  -> get_mfa_disabled_apps(fo)
      [] k = 6  -> list_ownerless_groups_ad(fo)
      [] k = 7  -> count_memberless_groups(Some(DashMaxResults), fo)
      [] k = 8  -> find_inactive_accounts(Some(DashMaxResults), fo)
      [] k = 9  -> count_service_accounts(Some(DashMaxResults), fo)
      [] k = 10 -> count_password_never_expire_accounts(Some(DashMaxResults), fo)
      [] k = 11 -> count_account_lockouts(Some(DashMaxResults), fo)

EmptyDict == [k \in {} |-> NoReturn]

BuildResult(raised, d, faulted) ==
    [op |-> "build_iam_dashboard", limit |-> None, mode |-> "", raised |-> raised,
     value |-> d, seen |-> <<>>, reqs |-> <<>>, faulted |-> faulted]

\* the caller invokes build_iam_dashboard
StartBuild ==
    /\ pc = 0
    /\ ret = NoCall
    /\ pc' = 1
    /\ snap' = EmptyDict
    /\ faults' = 0
    /\ failed' = {}
    /\ ret' = NoCall
    /\ tiles' = NoTiles
    /\ UNCHANGED <<envVars, codec, deadline, appVars, conn>>

\* a faulty variant: a build step that also removes the first group of the
\* directory
BuildStepDeletingGroup ==
    /\ pc \in 1..Len(Metrics)
    /\ \E fo \in FaultPlans(MaxFaults - faults) :
         LET r == MetricCall(pc, fo)
         IN  /\ Canonical(fo, r)
             /\ conn' = r.conn
             /\ faults' = faults + FaultsMet(fo, r)
             /\ failed' = IF FaultsMet(fo, r) > 0 THEN failed \cup {pc} ELSE failed
             /\ IF r.raised
                THEN /\ pc' = 0
                     /\ snap' = EmptyDict
                     /\ ret' = BuildResult(TRUE, NoReturn, TRUE)
                ELSE LET d == snap @@ (Metrics[pc] :> r.value)
                     IN  IF pc < Len(Metrics)
                         THEN /\ pc' = pc + 1
                              /\ snap' = d
                              /\ ret' = ret
                         ELSE /\ pc' = 0
                              /\ snap' = EmptyDict
                              /\ ret' = BuildResult(FALSE, d, failed' # {})
    /\ groups' = IF groups = <<>> THEN groups ELSE Tail(groups)
    /\ UNCHANGED <<acct, pageCap, lockShift, cloud, codec, deadline, appVars, tiles>>

\* one entry of the dict literal is evaluated; after the last one the dict
\* is returned
BuildStep ==
    /\ pc \in 1..Len(Metrics)
    /\ \E fo \in FaultPlans(MaxFaults - faults) :
         LET r == MetricCall(pc, fo)
         IN  /\ Canonical(fo, r)
             /\ conn' = r.conn
             /\ faults' = faults + FaultsMet(fo, r)
             /\ failed' = IF FaultsMet(fo, r) > 0 THEN failed \cup {pc} ELSE failed
             /\ IF r.raised
                THEN /\ pc' = 0
                     /\ snap' = EmptyDict
                     /\ ret' = BuildResult(TRUE, NoReturn, TRUE)
                ELSE LET d == snap @@ (Metrics[pc] :> r.value)
                     IN  IF pc < Len(Metrics)
                         THEN /\ pc' = pc + 1
                              /\ snap' = d
                              /\ ret' = ret
                         ELSE /\ pc' = 0
                              /\ snap' = EmptyDict
                              /\ ret' = BuildResult(FALSE, d, failed' # {})
    /\ UNCHANGED <<envVars, codec, deadline, appVars, tiles>>

(***************************************************************************)
(* dashboardApp.py: the numbers on the tiles.  The script stops at its     *)
(* line 17 when build_iam_dashboard raised.                                *)
(***************************************************************************)
TilesOf(dashboard) ==
    [state |-> "shown",
     risky_users |-> Len(Get(dashboard.risky_users, "value", <<>>)),
     protected_users |-> Len(Get(dashboard.protected_users, "value", <<>>)),
     privileged_accounts |-> Len(Get(dashboard.privileged_accounts, "value", <<>>)),
     ownerless_groups_entra |-> Len(Get(dashboard.ownerless_groups_entra, "value", <<>>)),
     mfa_disabled_apps |-> Get(dashboard.mfa_disabled_apps, "count", 0),
     ownerless_groups_ad |-> Len(dashboard.ownerless_groups_ad),
     memberless_groups |-> Get(dashboard.memberless_groups, "count", 0),
     inactive_accounts |-> Get(dashboard.inactive_accounts, "count", 0),
     service_accounts |-> Get(dashboard.service_accounts, "count", 0),
     pwd_never_expire |-> Get(dashboard.pwd_never_expire, "count", 0),
     account_lockouts |-> Get(dashboard.account_lockouts, "count", 0)]

RenderDashboard ==
    /\ pc = 0
    /\ ret.op = "build_iam_dashboard"
    /\ tiles = NoTiles
    /\ tiles' = IF ret.raised THEN [state |-> "crashed"] ELSE TilesOf(ret.value)
    /\ UNCHANGED <<envVars, codec, deadline, appVars, conn, pc, snap, faults, failed, ret>>

(***************************************************************************)
(* IAMPlugin(): dashboardApp.get_dashboard constructs a new plugin, with a *)
(* new connection, for every snapshot; so does a caller of one metric.     *)
(***************************************************************************)
NewPlugin ==
    /\ pc = 0
    /\ ret # NoCall
    /\ conn' = DeadConn
    /\ ret' = NoCall
    /\ tiles' = NoTiles
    /\ failed' = {}
    /\ UNCHANGED <<envVars, codec, deadline, appVars, pc, snap, faults>>

(***************************************************************************)
(* Direct calls of the AD metrics, with any max_results.                   *)
(***************************************************************************)
Call(op, limit, fo, r) ==
    /\ pc = 0
    /\ ret = NoCall
    /\ Canonical(fo, r)
    /\ conn' = r.conn
    /\ ret' = CallRecord(op, limit, fo, r)
    /\ tiles' = NoTiles
    /\ UNCHANGED <<envVars, codec, deadline, appVars, pc, snap, faults, failed>>

CallListOwnerlessGroupsAd ==
    \E fo \in FaultPlans(MaxFaults) :
        Call("list_ownerless_groups_ad", None, fo, list_ownerless_groups_ad(fo))

CallCountMemberlessGroups ==
    \E lim \in Limits, fo \in FaultPlans(MaxFaults) :
        Call("count_memberless_groups", lim, fo, count_memberless_groups(lim, fo))

CallFindInactiveAccounts ==
    \E lim \in Limits, fo \in FaultPlans(MaxFaults) :
        Call("find_inactive_accounts", lim, fo, find_inactive_accounts(lim, fo))

CallCountServiceAccounts ==
    \E lim \in Limits, fo \in FaultPlans(MaxFaults) :
        Call("count_service_accounts", lim, fo, count_service_accounts(lim, fo))

CallCountPasswordNeverExpire ==
    \E lim \in IntLimits, fo \in FaultPlans(MaxFaults) :
        Call("count_password_never_expire_accounts", lim, fo,
             count_password_never_expire_accounts(lim, fo))

CallCountAccountLockouts ==
    \E lim \in Limits, fo \in FaultPlans(MaxFaults) :
        Call("count_account_lockouts", lim, fo, count_account_lockouts(lim, fo))

(***************************************************************************)
(* Direct calls of the classifiers of AD_Provisioning_Agent.               *)
(***************************************************************************)
Actions == {"list", "count", "both", "other"}
Counts == -1..MaxLimit

CallGroupsWithoutOwner ==
    \E action \in Actions, count \in Counts, fo \in FaultPlans(MaxFaults) :
        LET r == groups_without_owner(action, count, fo)
        IN  /\ pc = 0
            /\ ret = NoCall
            /\ Canonical(fo, r)
            /\ conn' = r.conn
            /\ ret' = CallRecord2("groups_without_owner", Some(count), action, fo, r)
            /\ UNCHANGED <<envVars, codec, deadline, appVars, pc, snap, faults, failed, tiles>>

CallGroupsWithZeroMembers ==
    \E count \in Counts, fo \in FaultPlans(MaxFaults) :
        LET r == groups_with_zero_members(count, fo)
        IN  /\ pc = 0
            /\ ret = NoCall
            /\ Canonical(fo, r)
            /\ conn' = r.conn
            /\ ret' = CallRecord2("groups_with_zero_members", Some(count), "", fo, r)
            /\ UNCHANGED <<envVars, codec, deadline, appVars, pc, snap, faults, failed, tiles>>

CallListInactiveOwnerGroups ==
    \E limit \in Counts, count_only \in BOOLEAN, fo \in FaultPlans(MaxFaults) :
        LET r == list_inactive_owner_groups(limit, count_only, fo)
        IN  /\ pc = 0
            /\ ret = NoCall
            /\ Canonical(fo, r)
            /\ conn' = r.conn
            /\ ret' = CallRecord2("list_inactive_owner_groups", Some(limit),
                                  IF count_only THEN "count_only" ELSE "list", fo, r)
            /\ UNCHANGED <<envVars, codec, deadline, appVars, pc, snap, faults, failed, tiles>>

CallShowGroupMembers ==
    \E common_name \in 1..(Len(groups) + 1), count \in Counts, list_all \in BOOLEAN,
       fo \in FaultPlans(MaxFaults) :
        LET r == show_group_members(common_name, count, list_all, fo)
        IN  /\ pc = 0
            /\ ret = NoCall
            /\ Canonical(fo, r)
            /\ conn' = r.conn
            /\ ret' = CallRecord2("show_group_members", Some(count),
                                  IF list_all THEN "list_all" ELSE "count", fo, r)
                        @@ [group |-> common_name]
            /\ UNCHANGED <<envVars, codec, deadline, appVars, pc, snap, faults, failed, tiles>>

(***************************************************************************)
(* The directory and the cloud tenant of the dashboard specification: the  *)
(* first n groups and accounts of a fixed population, and m cloud objects. *)
(***************************************************************************)
PopGroup(i) ==
    [cn |-> i,
     owner |-> IF i % 2 = 1 THEN NoRef ELSE UserRef(IntValue(512)),
     members |-> IF i % 3 = 0 THEN <<UserRef(IntValue(512))>> ELSE <<>>]

DashGroups(n) == [i \in 1..n |-> PopGroup(i)]
DashAccounts(n) ==
    [f \in AccountFilters |-> IF f = "service" THEN Max(n - 1, 0) ELSE n]

\* the pages of /groups/{id}/owners of cloud group i: one empty page; an
\* empty first page followed by a page with an owner; one page with an owner
OwnerPages(i) ==
    CASE i % 4 \in {1, 3} -> << <<>> >>
      [] i % 4 = 2       -> << <<>>, GraphList(1) >>
      [] OTHER           -> << GraphList(1) >>

CloudTenant(m) ==
    [risky |-> m, protected |-> Max(m - 1, 0), privileged |-> m,
     groups |-> [i \in 1..m |-> [id |-> i, owners |-> OwnerPages(i)]],
     apps |-> m,
     policies |-> IF m >= 2
                  THEN <<[mfa |-> TRUE, all |-> FALSE, include |-> {1}, exclude |-> {}]>>
                  ELSE <<>>]

\* the dashboard application: snapshots of any such directory and tenant
Init ==
    /\ \E n \in 0..MaxMatch : groups = DashGroups(n) /\ acct = DashAccounts(n)
    /\ pageCap \in 1..MaxPageLen
    /\ lockShift = 0
    /\ \E m \in 0..MaxCloud : cloud = CloudTenant(m)
    /\ conn = DeadConn
    /\ pc = 0
    /\ snap = EmptyDict
    /\ faults = 0
    /\ failed = {}
    /\ ret = NoCall
    /\ tiles = NoTiles
    /\ codec = NoCodec
    /\ deadline = 0
    /\ observability_queue = EmptyQueue
    /\ ui = NoSessions
    /\ chat = NoChat

Next ==
    \/ NewPlugin
    \/ StartBuild
    \/ BuildStep
    \/ RenderDashboard

Spec == Init /\ [][Next]_vars

(***************************************************************************)
(* The specification of one build against the caller's overall deadline.   *)
(* build_iam_dashboard takes no deadline and its requests carry no         *)
(* timeout: the deadline passing while a metric is in flight changes       *)
(* nothing in the build, which goes on to return what the metric returns.  *)
(***************************************************************************)
DeadlinePasses ==
    /\ pc \in 1..Len(Metrics)
    /\ deadline = 0
    /\ observability_queue = EmptyQueue
    /\ ui = NoSessions
    /\ chat = NoChat
    /\ deadline' = pc
    /\ UNCHANGED <<appVars, envVars, codec, conn, pc, snap, faults, failed, ret, tiles>>

NextDeadline ==
    \/ StartBuild
    \/ BuildStep
    \/ DeadlinePasses

SpecDeadline == Init /\ [][NextDeadline]_vars

(***************************************************************************)
(* The specification of the directory metrics called one at a time, with   *)
(* any max_results.                                                        *)
(***************************************************************************)
InitCalls ==
    /\ \E n \in 0..MaxMatch : groups = DashGroups(n) /\ acct = DashAccounts(n)
    /\ pageCap \in 1..MaxPageLen
    /\ lockShift \in 0..(Len(RawCycle) - 1)
    /\ cloud = CloudTenant(0)
    /\ conn = DeadConn
    /\ pc = 0
    /\ snap = EmptyDict
    /\ faults = 0
    /\ failed = {}
    /\ ret = NoCall
    /\ tiles = NoTiles
    /\ codec = NoCodec
    /\ deadline = 0
    /\ observability_queue = EmptyQueue
    /\ ui = NoSessions
    /\ chat = NoChat

NextCalls ==
    \/ NewPlugin
    \/ CallListOwnerlessGroupsAd
    \/ CallCountMemberlessGroups
    \/ CallFindInactiveAccounts
    \/ CallCountServiceAccounts
    \/ CallCountPasswordNeverExpire
    \/ CallCountAccountLockouts
    \/ CallGroupsWithoutOwner
    \/ CallGroupsWithZeroMembers

SpecCalls == InitCalls /\ [][NextCalls]_vars

(***************************************************************************)
(* The specification of the AD_Provisioning_Agent classifiers: any         *)
(* directory of up to MaxMatch groups, each with no owner, a dangling      *)
(* owner reference, or an owner whose userAccountControl reads 0x200,      *)
(* 0x202 or nothing.                                                       *)
(***************************************************************************)
OwnerRefs ==
    {NoRef, DanglingRef, UserRef(IntValue(512)), UserRef(IntValue(514)),
     UserRef(NoValue)}

\* the members of the i-th group
PopMembers(i) ==
    CASE i % 3 = 1 -> <<UserRef(IntValue(514)), DanglingRef, UserRef(IntValue(512))>>
      [] i % 3 = 2 -> <<UserRef(IntValue(512)), UserRef(BadValue), UserRef(IntValue(514))>>
      [] OTHER     -> <<>>

ADDirectories ==
    UNION {{[i \in 1..n |-> [cn |-> i, owner |-> o[i], members |-> PopMembers(i)]] :
               o \in [1..n -> OwnerRefs]} : n \in 0..MaxMatch}

InitAD ==
    /\ groups \in ADDirectories
    /\ acct = DashAccounts(0)
    /\ pageCap = 1
    /\ lockShift = 0
    /\ cloud = CloudTenant(0)
    /\ conn = DeadConn
    /\ pc = 0
    /\ snap = EmptyDict
    /\ faults = 0
    /\ failed = {}
    /\ ret = NoCall
    /\ tiles = NoTiles
    /\ codec = NoCodec
    /\ deadline = 0
    /\ observability_queue = EmptyQueue
    /\ ui = NoSessions
    /\ chat = NoChat

\* AD_Provisioning_Agent(): a new agent with a new connection
NewAgent ==
    /\ pc = 0
    /\ ret # NoCall
    /\ conn' = DeadConn
    /\ ret' = NoCall
    /\ UNCHANGED <<envVars, codec, deadline, appVars, pc, snap, faults, failed, tiles>>

NextAD ==
    \/ NewAgent
    \/ CallGroupsWithoutOwner
    \/ CallListInactiveOwnerGroups

SpecAD == InitAD /\ [][NextAD]_vars

(***************************************************************************)
(* The specification of show_group_members: the first n groups of a fixed  *)
(* population whose members are active, disabled, dangling or carry a      *)
(* userAccountControl int() rejects.                                       *)
(***************************************************************************)
InitMembers ==
    /\ \E n \in 0..MaxMatch :
         groups = [i \in 1..n |-> [cn |-> i, owner |-> NoRef, members |-> PopMembers(i)]]
    /\ acct = DashAccounts(0)
    /\ pageCap = 1
    /\ lockShift = 0
    /\ cloud = CloudTenant(0)
    /\ conn = DeadConn
    /\ pc = 0
    /\ snap = EmptyDict
    /\ faults = 0
    /\ failed = {}
    /\ ret = NoCall
    /\ tiles = NoTiles
    /\ codec = NoCodec
    /\ deadline = 0
    /\ observability_queue = EmptyQueue
    /\ ui = NoSessions
    /\ chat = NoChat

NextMembers == NewAgent \/ CallShowGroupMembers

SpecMembers == InitMembers /\ [][NextMembers]_vars

(***************************************************************************)
(* The specification of one IAMPlugin that is kept after it built a        *)
(* snapshot: the caller holds the dict (snap) and runs the plugin's        *)
(* metrics again, one after another, in any order and any number of times, *)
(* on the plugin's one connection, every request answered.                 *)
(***************************************************************************)
\* the method behind each entry of the dashboard dict
MetricOps ==
    <<"get_risky_users", "get_protected_users", "get_privileged_accounts",
      "get_ownerless_groups", "get_mfa_disabled_apps", "list_ownerless_groups_ad",
      "count_memberless_groups", "find_inactive_accounts", "count_service_accounts",
      "count_password_never_expire_accounts", "count_account_lockouts">>

MetricOf(op) == Metrics[CHOOSE k \in 1..Len(Metrics) : MetricOps[k] = op]

InitShared == Init

RunMetric ==
    \E k \in 1..Len(Metrics) :
        LET r == MetricCall(k, AllOk)
        IN  /\ pc = 0
            /\ ret # NoCall
            /\ ~ret.raised
            /\ ~ret.faulted
            /\ conn' = r.conn
            /\ ret' = CallRecord(MetricOps[k],
                                 IF k >= 7 THEN Some(DashMaxResults) ELSE None, AllOk, r)
            /\ snap' = IF ret.op = "build_iam_dashboard" THEN ret.value ELSE snap
            /\ UNCHANGED <<envVars, codec, deadline, appVars, pc, faults, failed, tiles>>

NextShared ==
    \/ StartBuild
    \/ BuildStep
    \/ RunMetric

SpecShared == InitShared /\ [][NextShared]_vars

(***************************************************************************)
(* The specification of the cloud classifiers called one at a time: the    *)
(* two Entra ID metrics of IAMPlugin that combine several requests, and    *)
(* the ownerless-groups operations of ProvisioningAgent, against a tenant  *)
(* of up to MaxCloud groups and applications and a few conditional-access  *)
(* policies.  faults counts the requests of the call that failed, and      *)
(* failed holds the numbers of those answered with a non-success status.   *)
(***************************************************************************)
RequiresMfa(include) == [mfa |-> TRUE, all |-> FALSE, include |-> include, exclude |-> {}]
RequiresMfaForAllBut(exclude) ==
    [mfa |-> TRUE, all |-> TRUE, include |-> {}, exclude |-> exclude]
BlocksAll == [mfa |-> FALSE, all |-> TRUE, include |-> {}, exclude |-> {}]

CloudPolicies ==
    {<<>>, <<RequiresMfa({1})>>, <<RequiresMfaForAllBut({2})>>, <<BlocksAll>>,
     <<BlocksAll, RequiresMfa({2})>>}

InitCloud ==
    /\ groups = <<>>
    /\ acct = DashAccounts(0)
    /\ pageCap \in 1..MaxPageLen
    /\ lockShift = 0
    /\ \E m \in 0..MaxCloud, ps \in CloudPolicies :
         cloud = [CloudTenant(m) EXCEPT !.policies = ps]
    /\ conn = DeadConn
    /\ pc = 0
    /\ snap = EmptyDict
    /\ faults = 0
    /\ failed = {}
    /\ ret = NoCall
    /\ tiles = NoTiles
    /\ codec = NoCodec
    /\ deadline = 0
    /\ observability_queue = EmptyQueue
    /\ ui = NoSessions
    /\ chat = NoChat

CloudCall(op, limit, fo, r) ==
    /\ pc = 0
    /\ ret = NoCall
    /\ Canonical(fo, r)
    /\ conn' = r.conn
    /\ ret' = CallRecord(op, limit, fo, r)
    /\ faults' = FaultsMet(fo, r)
    /\ failed' = {n \in 1..Len(r.reqs) : fo[n] = "err"}
    /\ UNCHANGED <<envVars, codec, deadline, appVars, pc, snap, tiles>>

CallGetOwnerlessGroups ==
    \E fo \in FaultPlans(MaxFaults) :
        CloudCall("get_ownerless_groups", None, fo, get_ownerless_groups(fo))

CallGetMfaDisabledApps ==
    \E fo \in FaultPlans(MaxFaults) :
        CloudCall("get_mfa_disabled_apps", None, fo, get_mfa_disabled_apps(fo))

CallCountOwnerlessGroups ==
    \E fo \in CloudPlans(MaxFaults) :
        CloudCall("count_ownerless_groups", None, fo, count_ownerless_groups(fo))

CallListOwnerlessGroups ==
    \E max_results \in Counts, fo \in CloudPlans(MaxFaults) :
        CloudCall("list_ownerless_groups", Some(max_results), fo,
                  list_ownerless_groups(max_results, fo))

NextCloud ==
    \/ NewPlugin
    \/ CallGetOwnerlessGroups
    \/ CallGetMfaDisabledApps
    \/ CallCountOwnerlessGroups
    \/ CallListOwnerlessGroups

SpecCloud == InitCloud /\ [][NextCloud]_vars

(***************************************************************************)
(* The specification of the listing operations of ProvisioningAgent called *)
(* one at a time, against a tenant of up to MaxCloud users and groups      *)
(* whose owners carry accountEnabled.                                      *)
(***************************************************************************)
DisabledOwner(i) == [id |-> i, accountEnabled |-> FALSE]
EnabledOwner(i) == [id |-> i, accountEnabled |-> TRUE]
\* an owner delivered without accountEnabled
PlainOwner(i) == [id |-> i]

\* the pages of /groups/{id}/owners a group of the tenant can have: one
\* disabled owner; two disabled owners; a disabled owner on the first page
\* and an enabled one on the next; a disabled owner and one without
\* accountEnabled; no owner
AccountOwnerPages ==
    {<< <<DisabledOwner(1)>> >>,
     << <<DisabledOwner(1), DisabledOwner(2)>> >>,
     << <<DisabledOwner(1)>>, <<EnabledOwner(2)>> >>,
     << <<DisabledOwner(1), PlainOwner(2)>> >>,
     << <<>> >>}

\* a tenant of m users and m groups
OrchTenants ==
    UNION {{[users |-> m, groups |-> [i \in 1..m |-> [id |-> i, owners |-> o[i]]]] :
               o \in [1..m -> AccountOwnerPages]} : m \in 0..MaxCloud}

InitOrch ==
    /\ groups = <<>>
    /\ acct = DashAccounts(0)
    /\ pageCap \in 1..MaxPageLen
    /\ lockShift = 0
    /\ cloud \in OrchTenants
    /\ conn = DeadConn
    /\ pc = 0
    /\ snap = EmptyDict
    /\ faults = 0
    /\ failed = {}
    /\ ret = NoCall
    /\ tiles = NoTiles
    /\ codec = NoCodec
    /\ deadline = 0
    /\ observability_queue = EmptyQueue
    /\ ui = NoSessions
    /\ chat = NoChat

CallListGroupsWithInactiveOwners ==
    \E limit \in Counts, count_only \in BOOLEAN, fo \in FaultPlans(MaxFaults) :
        LET r == list_groups_with_inactive_owners(limit, count_only, fo)
        IN  /\ pc = 0
            /\ ret = NoCall
            /\ Canonical(fo, r)
            /\ conn' = r.conn
            /\ ret' = CallRecord2("list_groups_with_inactive_owners", Some(limit),
                                  IF count_only THEN "count_only" ELSE "list", fo, r)
            /\ faults' = FaultsMet(fo, r)
            /\ failed' = {n \in 1..Len(r.reqs) : fo[n] = "err"}
            /\ UNCHANGED <<envVars, codec, deadline, appVars, pc, snap, tiles>>

OrchCall(op, limit, fo, r) ==
    /\ pc = 0
    /\ ret = NoCall
    /\ Canonical(fo, r)
    /\ conn' = r.conn
    /\ ret' = CallRecord(op, limit, fo, r)
    /\ faults' = FaultsMet(fo, r)
    /\ failed' = {n \in 1..Len(r.reqs) : fo[n] = "err"}
    /\ UNCHANGED <<envVars, codec, deadline, appVars, pc, snap, tiles>>

CallListUsers ==
    \E max_results \in Counts, fo \in FaultPlans(MaxFaults) :
        OrchCall("list_users", Some(max_results), fo, list_users(max_results, fo))

CallListGroups ==
    \E max_results \in Counts, fo \in FaultPlans(MaxFaults) :
        OrchCall("list_groups", Some(max_results), fo, list_groups(max_results, fo))

NextOrch ==
    \/ NewPlugin
    \/ CallListGroupsWithInactiveOwners
    \/ CallListUsers
    \/ CallListGroups

SpecOrch == InitOrch /\ [][NextOrch]_vars

(***************************************************************************)
(* The specification of groups_not_following_naming_convention: a          *)
(* directory of up to MaxMatch named groups, below OU=BU_Groups or         *)
(* elsewhere, and a caller passing one of a few allow-lists; the record of *)
(* the call keeps the name of the allow-list as its mode.                  *)
(***************************************************************************)
NamedGroup(i) ==
    [cn |-> CASE i % 4 = 1 -> <<"S", "G", "a">>
              [] i % 4 = 2 -> <<"D", "L", "a">>
              [] i % 4 = 3 -> <<"D", "L", "b">>
              [] OTHER     -> <<"S">>,
     ou |-> IF i % 4 = 2 THEN "Users" ELSE "BU_Groups",
     owner |-> NoRef,
     members |-> <<>>]

AllowLists ==
    [none |-> {},
     SG |-> {<<"S", "G">>},
     DL |-> {<<"D", "L">>},
     SG_DL |-> {<<"S", "G">>, <<"D", "L">>},
     S_DLa |-> {<<"S">>, <<"D", "L", "a">>},
     empty_prefix |-> {<<>>}]

InitNaming ==
    /\ \E n \in 0..MaxMatch : groups = [i \in 1..n |-> NamedGroup(i)]
    /\ acct = DashAccounts(0)
    /\ pageCap = 1
    /\ lockShift = 0
    /\ cloud = CloudTenant(0)
    /\ conn = DeadConn
    /\ pc = 0
    /\ snap = EmptyDict
    /\ faults = 0
    /\ failed = {}
    /\ ret = NoCall
    /\ tiles = NoTiles
    /\ codec = NoCodec
    /\ deadline = 0
    /\ observability_queue = EmptyQueue
    /\ ui = NoSessions
    /\ chat = NoChat

CallGroupsNotFollowingNamingConvention ==
    \E list \in DOMAIN AllowLists, count \in Counts, fo \in FaultPlans(MaxFaults) :
        LET r == groups_not_following_naming_convention(AllowLists[list], count, fo)
        IN  /\ pc = 0
            /\ ret = NoCall
            /\ Canonical(fo, r)
            /\ conn' = r.conn
            /\ ret' = CallRecord2("groups_not_following_naming_convention",
                                  Some(count), list, fo, r)
            /\ UNCHANGED <<envVars, codec, deadline, appVars, pc, snap, faults, failed, tiles>>

NextNaming ==
    \/ NewAgent
    \/ CallGroupsNotFollowingNamingConvention

SpecNaming == InitNaming /\ [][NextNaming]_vars

(***************************************************************************)
(* The specification of the timestamp conversions: a calendar time is      *)
(* encoded by datetime_to_filetime and the ticks are decoded as            *)
(* count_account_lockouts decodes lockoutTime.                             *)
(***************************************************************************)
InitCodec ==
    /\ groups = DashGroups(0)
    /\ acct = DashAccounts(0)
    /\ pageCap = 1
    /\ lockShift = 0
    /\ cloud = CloudTenant(0)
    /\ conn = DeadConn
    /\ pc = 0
    /\ snap = EmptyDict
    /\ faults = 0
    /\ failed = {}
    /\ ret = NoCall
    /\ tiles = NoTiles
    /\ \E t \in 0..MaxMicros : codec = [NoCodec EXCEPT !.stage = "time", !.t = t]
    /\ deadline = 0
    /\ observability_queue = EmptyQueue
    /\ ui = NoSessions
    /\ chat = NoChat

Encode ==
    /\ codec.stage = "time"
    /\ codec' = [codec EXCEPT !.stage = "ticks", !.ticks = datetime_to_filetime(codec.t)]
    /\ UNCHANGED <<deadline, appVars, envVars, conn, pc, snap, faults, failed, ret, tiles>>

Decode ==
    /\ codec.stage = "ticks"
    /\ codec' = [codec EXCEPT !.stage = "decoded",
                              !.back = LockoutDecode(IntValue(codec.ticks)).dt]
    /\ UNCHANGED <<deadline, appVars, envVars, conn, pc, snap, faults, failed, ret, tiles>>

NextCodec == Encode \/ Decode

SpecCodec == InitCodec /\ [][NextCodec]_vars

(***************************************************************************)
(* The specification of the account-control checks: a userAccountControl   *)
(* value read from an entry, to which the ACCOUNTDISABLE test of the agent *)
(* or the DONT_EXPIRE_PASSWORD test of the metric's filter is applied.     *)
(***************************************************************************)
\* the flag combinations above the low bits: none, NORMAL_ACCOUNT (0x200),
\* DONT_EXPIRE_PASSWORD (0x10000), both (0x10200)
FlagHighs == {0, 512, 65536, 66048}
FlagValues == {h + l : h \in FlagHighs, l \in 0..MaxFlagLow}

InitFlags ==
    /\ groups = DashGroups(0)
    /\ acct = DashAccounts(0)
    /\ pageCap = 1
    /\ lockShift = 0
    /\ cloud = CloudTenant(0)
    /\ conn = DeadConn
    /\ pc = 0
    /\ snap = EmptyDict
    /\ faults = 0
    /\ failed = {}
    /\ \E flags \in FlagValues :
         ret = [NoCall EXCEPT !.op = "userAccountControl", !.limit = Some(flags)]
    /\ tiles = NoTiles
    /\ codec = NoCodec
    /\ deadline = 0
    /\ observability_queue = EmptyQueue
    /\ ui = NoSessions
    /\ chat = NoChat

DisabledCheck ==
    /\ ret.op = "userAccountControl"
    /\ ret' = [ret EXCEPT !.op = "disabled_check",
                          !.value = [result |-> DisabledBit(ret.limit.v)]]
    /\ UNCHANGED <<envVars, codec, deadline, appVars, conn, pc, snap, faults, failed, tiles>>

PasswordNeverExpiresCheck ==
    /\ ret.op = "userAccountControl"
    /\ ret' = [ret EXCEPT !.op = "password_never_expires_check",
                          !.value = [result |-> PasswordNeverExpiresBit(ret.limit.v)]]
    /\ UNCHANGED <<envVars, codec, deadline, appVars, conn, pc, snap, faults, failed, tiles>>

NextFlags == DisabledCheck \/ PasswordNeverExpiresCheck

SpecFlags == InitFlags /\ [][NextFlags]_vars

(***************************************************************************)
(* The specification of the IAM assistant's page (iam_ui.py) served to two *)
(* browser sessions of one process: each session runs the script in a      *)
(* thread of its own, with its own st.session_state, and all of them share *)
(* the queue of the module iam_observability.  A step of a session is one  *)
(* queue operation or the local code up to the next one.                   *)
(***************************************************************************)
Sessions == {"a", "b"}

\* the log_step calls of search_iam_docs_stream before its yield number gen
SegmentEvents(gen, run_failed) ==
    CASE gen = 1 -> <<"User query received">>
      [] gen = 2 -> <<"create_user_message">>
      [] gen = 3 -> <<"process_agent_run: Starting agent run",
                      "process_agent_run: Agent run processed">>
                    \o (IF run_failed THEN <<"Run failed">> ELSE <<>>)
      [] gen = 4 -> <<"get_last_agent_response">>
      [] OTHER   -> <<>>

\* the yields of the generator: 5 is "Response Ready", after which and after
\* the "Error" step of a failed run the generator is exhausted
Exhausted == 6
NextYield(gen, run_failed) ==
    IF gen = 5 \/ (gen = 3 /\ run_failed) THEN Exhausted ELSE gen + 1

NewSession ==
    [pc |-> "start", gen |-> 0, k |-> 0, run_failed |-> FALSE, live_logs |-> <<>>,
     event |-> [none |-> TRUE], final_response |-> "", chat_history |-> <<>>]

Event(s, operation) ==
    [session |-> s, turn |-> Len(ui[s].chat_history) + 1, operation |-> operation]

InitObs ==
    /\ groups = <<>>
    /\ acct = DashAccounts(0)
    /\ pageCap = 1
    /\ lockShift = 0
    /\ cloud = CloudTenant(0)
    /\ conn = DeadConn
    /\ pc = 0
    /\ snap = EmptyDict
    /\ faults = 0
    /\ failed = {}
    /\ ret = NoCall
    /\ tiles = NoTiles
    /\ codec = NoCodec
    /\ deadline = 0
    /\ observability_queue = EmptyQueue
    /\ ui = [s \in Sessions |-> NewSession]
    /\ chat = NoChat

\* the events pushed so far: those in the queue, the one a session holds
\* between get() and task_done(), and those in the logs
LoggedBy(s) ==
    LET H[t \in 0..Len(ui[s].chat_history)] ==
            IF t = 0 THEN 0 ELSE H[t - 1] + Len(ui[s].chat_history[t].logs)
    IN  H[Len(ui[s].chat_history)] + Len(ui[s].live_logs)
        + (IF ui[s].pc = "log" THEN 1 ELSE 0)
Pushed == Len(observability_queue.items) + LoggedBy("a") + LoggedBy("b")

ObsUnchanged ==
    UNCHANGED <<envVars, codec, deadline, conn, pc, snap, faults, failed, ret, tiles,
                chat>>

\* the first run of the script: IAMAssistant() ends with
\* log_step("IAM Assistant initialized"), outside any query (turn 0)
OpenSession(s) ==
    /\ ui[s].pc = "start"
    /\ Pushed < MaxEvents
    /\ observability_queue' =
         Put(observability_queue,
             [session |-> s, turn |-> 0, operation |-> "IAM Assistant initialized"])
    /\ ui' = [ui EXCEPT ![s].pc = "idle"]
    /\ ObsUnchanged

\* if submit_button and user_input: the locals of the turn; the for
\* statement then asks the generator for its first step
Submit(s) ==
    /\ ui[s].pc = "idle"
    /\ Len(ui[s].chat_history) < MaxTurns
    /\ ui' = [ui EXCEPT ![s].pc = "next", ![s].gen = 1, ![s].k = 0,
                        ![s].run_failed = FALSE, ![s].live_logs = <<>>,
                        ![s].final_response = ""]
    /\ UNCHANGED observability_queue
    /\ ObsUnchanged

\* the generator runs on to its next log_step; create_and_process_run
\* returns between the two events of process_agent_run, failed or not
LogStep(s) ==
    /\ ui[s].pc = "next"
    /\ ui[s].k < Len(SegmentEvents(ui[s].gen, ui[s].run_failed))
    /\ Pushed < MaxEvents
    /\ observability_queue' =
         Put(observability_queue,
             Event(s, SegmentEvents(ui[s].gen, ui[s].run_failed)[ui[s].k + 1]))
    /\ \E run_failed \in BOOLEAN :
         /\ (ui[s].gen # 3 \/ ui[s].k # 0) => run_failed = ui[s].run_failed
         /\ ui' = [ui EXCEPT ![s].k = @ + 1, ![s].run_failed = run_failed]
    /\ ObsUnchanged

\* the generator yields its step: the body of the for statement starts
Yield(s) ==
    /\ ui[s].pc = "next"
    /\ ui[s].k = Len(SegmentEvents(ui[s].gen, ui[s].run_failed))
    /\ ui' = [ui EXCEPT ![s].pc = "drain"]
    /\ UNCHANGED observability_queue
    /\ ObsUnchanged

\* while not observability_queue.empty(); on an empty queue the rest of the
\* body ("Response Ready" sets final_response) and the request for the next
\* step, which ends the loop when the generator is exhausted
TestEmpty(s) ==
    /\ ui[s].pc = "drain"
    /\ IF observability_queue.items # <<>>
       THEN ui' = [ui EXCEPT ![s].pc = "get"]
       ELSE LET gen == NextYield(ui[s].gen, ui[s].run_failed)
            IN  ui' = [ui EXCEPT
                         ![s].final_response = IF ui[s].gen = 5 THEN "response" ELSE @,
                         ![s].gen = gen, ![s].k = 0,
                         ![s].pc = IF gen = Exhausted THEN "save" ELSE "next"]
    /\ UNCHANGED observability_queue
    /\ ObsUnchanged

\* event = observability_queue.get(): waits while the queue is empty
QueueGet(s) ==
    /\ ui[s].pc = "get"
    /\ observability_queue.items # <<>>
    /\ observability_queue' = [observability_queue EXCEPT !.items = Tail(@)]
    /\ ui' = [ui EXCEPT ![s].pc = "log", ![s].event = Head(observability_queue.items)]
    /\ ObsUnchanged

\* live_logs.append(log_msg); observability_queue.task_done()
TaskDone(s) ==
    /\ ui[s].pc = "log"
    /\ observability_queue' = [observability_queue EXCEPT !.unfinished_tasks = @ - 1]
    /\ ui' = [ui EXCEPT ![s].pc = "drain", ![s].live_logs = Append(@, ui[s].event),
                        ![s].event = [none |-> TRUE]]
    /\ ObsUnchanged

\* st.session_state.chat_history.append(...); st.rerun()
SaveTurn(s) ==
    /\ ui[s].pc = "save"
    /\ ui' = [ui EXCEPT ![s].pc = "idle",
                        ![s].chat_history =
                            Append(@, [agent |-> ui[s].final_response,
                                       logs |-> ui[s].live_logs])]
    /\ UNCHANGED observability_queue
    /\ ObsUnchanged

NextObs ==
    \E s \in Sessions :
        \/ OpenSession(s)
        \/ Submit(s)
        \/ LogStep(s)
        \/ Yield(s)
        \/ TestEmpty(s)
        \/ QueueGet(s)
        \/ TaskDone(s)
        \/ SaveTurn(s)

SpecObs == InitObs /\ [][NextObs]_vars

(***************************************************************************)
(* The specification of ProvisioningAgent.chat (ProvisioningAgent.py): the *)
(* console loop.  A step runs the code from one input() to the next; what  *)
(* the operator types is a string of characters, and detect_intent answers *)
(* with any intent.  issued holds the calls of the agent's operations made *)
(* in the turn in progress or, between turns, in the last one.             *)
(***************************************************************************)
\* str.lower() on the characters the operator types
LowerChar(c) ==
    CASE c = "Y" -> "y"
      [] c = "E" -> "e"
      [] c = "S" -> "s"
      [] c = "N" -> "n"
      [] c = "O" -> "o"
      [] OTHER   -> c
Lower(str) == [i \in 1..Len(str) |-> LowerChar(str[i])]

\* what the operator types at a prompt
Typed ==
    {<<"u", "1">>, <<"5">>, <<"y", "e", "s">>, <<"Y", "E", "S">>, <<"Y", "e", "s">>,
     <<"n", "o">>, <<"y">>, <<>>}

\* the branches of chat: the input() calls of each and the operation called
Branches ==
    [list_users |-> [prompts |-> 0, method |-> "list_users"],
     list_top_users |-> [prompts |-> 1, method |-> "list_top_users"],
     get_user_details |-> [prompts |-> 1, method |-> "get_user_details"],
     create_user |-> [prompts |-> 3, method |-> "create_user"],
     update_user |-> [prompts |-> 3, method |-> "update_user"],
     delete_user |-> [prompts |-> 2, method |-> "delete_user"],
     create_group |-> [prompts |-> 3, method |-> "create_group"],
     list_groups |-> [prompts |-> 0, method |-> "list_groups"],
     add_user_to_group |-> [prompts |-> 2, method |-> "Add_user_to_group"],
     remove_user_from_group |-> [prompts |-> 2, method |-> "remove_user_from_group"],
     group_details |-> [prompts |-> 1, method |-> "group_details"],
     assign_owner |-> [prompts |-> 2, method |-> "assign_owner"],
     delete_group |-> [prompts |-> 2, method |-> "delete_group"]]

\* what detect_intent can return: an intent of the prompt or anything else
Intents == DOMAIN Branches \cup {"unknown"}

\* a faulty variant: the confirmation that takes anything but "no" for yes
ConfirmedUnlessNo(confirm) == Lower(confirm) # <<"n", "o">>

\* confirm.lower() == "yes"
Confirmed(confirm) == Lower(confirm) = <<"y", "e", "s">>

\* int(count), 10 on ValueError
CountOf(count) == IF count = <<"5">> THEN 5 ELSE 10

\* the calls a branch makes once all its inputs are read
BranchCalls(intent, inputs) ==
    IF intent \notin DOMAIN Branches THEN <<>>
    ELSE IF intent \in {"delete_user", "delete_group"}
    THEN IF Confirmed(inputs[2])
         THEN <<[method |-> Branches[intent].method, args |-> <<inputs[1]>>]>>
         ELSE <<>>
    ELSE IF intent = "list_top_users"
    THEN <<[method |-> "list_top_users", args |-> <<CountOf(inputs[1])>>]>>
    ELSE IF intent = "create_group"
    THEN <<[method |-> "create_group",
            args |-> <<inputs[1], inputs[2], Lower(inputs[3]) = <<"y", "e", "s">> >>]>>
    ELSE <<[method |-> Branches[intent].method, args |-> inputs]>>

PromptsOf(intent) == IF intent \in DOMAIN Branches THEN Branches[intent].prompts ELSE 0

InitChat ==
    /\ groups = <<>>
    /\ acct = DashAccounts(0)
    /\ pageCap = 1
    /\ lockShift = 0
    /\ cloud = CloudTenant(0)
    /\ conn = DeadConn
    /\ pc = 0
    /\ snap = EmptyDict
    /\ faults = 0
    /\ failed = {}
    /\ ret = NoCall
    /\ tiles = NoTiles
    /\ codec = NoCodec
    /\ deadline = 0
    /\ observability_queue = EmptyQueue
    /\ ui = NoSessions
    /\ chat = [pc |-> "input", intent |-> "", inputs |-> <<>>, issued |-> <<>>]

ChatUnchanged ==
    UNCHANGED <<envVars, codec, deadline, conn, pc, snap, faults, failed, ret, tiles,
                observability_queue, ui>>

\* user_input = input("You: ") is "exit" in any letter case
Exit ==
    /\ chat.pc = "input"
    /\ chat' = [chat EXCEPT !.pc = "exited"]
    /\ ChatUnchanged

\* any other user_input: a new turn; detect_intent chooses the branch, which
\* runs to its first input() or, having none, to its end
UserInput ==
    /\ chat.pc = "input"
    /\ \E intent \in Intents :
         chat' = IF PromptsOf(intent) = 0
                 THEN [pc |-> "input", intent |-> intent, inputs |-> <<>>,
                       issued |-> BranchCalls(intent, <<>>)]
                 ELSE [pc |-> "prompt", intent |-> intent, inputs |-> <<>>,
                       issued |-> <<>>]
    /\ ChatUnchanged

\* the operator answers the prompt the branch waits at; after the last one
\* the branch makes its calls and the loop returns to input("You: ")
Answer ==
    /\ chat.pc = "prompt"
    /\ \E typed \in Typed :
         LET inputs == Append(chat.inputs, typed)
         IN  chat' = IF Len(inputs) < PromptsOf(chat.intent)
                     THEN [chat EXCEPT !.inputs = inputs]
                     ELSE [chat EXCEPT !.pc = "input", !.inputs = inputs,
                                       !.issued = BranchCalls(chat.intent, inputs)]
    /\ ChatUnchanged

NextChat ==
    \/ Exit
    \/ UserInput
    \/ Answer

SpecChat == InitChat /\ [][NextChat]_vars

(***************************************************************************)
(* Properties of the dashboard snapshot (Spec)                             *)
(***************************************************************************)
\* C1: build_iam_dashboard always returns a snapshot: nothing propagates to
\* the caller, every metric has an entry in the returned dict, and the entry
\* of a metric whose request failed carries an "error" field.
C1_SnapshotAlwaysReturned ==
    ret.op = "build_iam_dashboard" =>
        /\ ~ret.raised
        /\ DOMAIN ret.value = {Metrics[k] : k \in 1..Len(Metrics)}
        /\ \A k \in failed :
             /\ Metrics[k] # "ownerless_groups_ad"
             /\ "error" \in DOMAIN ret.value[Metrics[k]]

\* C5: on the rendered dashboard the tile of a metric whose request failed
\* never shows the number 0.
C5_FailedNeverZero ==
    tiles.state = "shown" => \A k \in failed : tiles[Metrics[k]] # 0

\* C13: no step of any sequence of build_iam_dashboard invocations (the
\* construction of the plugin, the evaluation of each metric, the rendering
\* of the tiles) changes the directory or the cloud tenant: the groups, their
\* owners and members, the accounts, the attribute values and the cloud
\* objects and policies after the step are the ones before it.
C13_BuildsLeaveDirectoryAndCloudUnchanged ==
    [][envVars' = envVars]_vars

\* a snapshot has been built and shown, of a directory with groups and a tenant
\* with cloud groups and policies
C13_Witness ==
    /\ ret.op = "build_iam_dashboard"
    /\ ~ret.raised
    /\ groups # <<>>
    /\ cloud.groups # <<>>
    /\ cloud.policies # <<>>
    /\ tiles.state = "shown"

(***************************************************************************)
(* Properties of the AD metrics called directly (SpecCalls)                *)
(***************************************************************************)
\* the search filter of each counting metric
ScanFilter ==
    [count_memberless_groups |-> "memberless",
     find_inactive_accounts |-> "inactive",
     count_service_accounts |-> "service",
     count_password_never_expire_accounts |-> "pwdNeverExpire",
     count_account_lockouts |-> "lockout"]

PagedScans == {"count_memberless_groups", "count_password_never_expire_accounts"}

\* C2: when every request of a paged scan (count_memberless_groups,
\* count_password_never_expire_accounts) is answered, the entries the scan
\* processed are the server's pages concatenated in order: every matching
\* entry once, none twice, none left out; the cookies sent are the ones the
\* server handed out, in order.
C2_PagedScanIsConcatenation ==
    (ret.op \in PagedScans /\ ~ret.faulted) =>
        /\ ~ret.raised
        /\ ret.seen = Matching(ScanFilter[ret.op])
        /\ \A i, j \in 1..Len(ret.seen) : i # j => ret.seen[i] # ret.seen[j]
        /\ ret.value.count = Len(Matching(ScanFilter[ret.op]))
        /\ \A n \in 1..Len(ret.reqs) :
             ret.reqs[n] = IF n = 1 THEN NoCookie ELSE Cookie(ScanFilter[ret.op], n - 1)

\* a memberless-groups scan of at least two pages has returned
C2_Witness ==
    /\ ret.op = "count_memberless_groups"
    /\ ~ret.faulted
    /\ ~ret.raised
    /\ Len(ret.reqs) >= 2
    /\ Len(ret.seen) > pageCap

\* C24: a paged scan ends with the first response that carries no cookie:
\* every request but the last was answered with a cookie, the last one was
\* not, and a request that fails (error result or exception) is the last
\* one of the scan, everything processed having come from the full pages
\* before it.
C24_ScanStopsAtEmptyCursor ==
    ret.op \in PagedScans =>
        LET f == ScanFilter[ret.op]
            m == Len(ret.reqs)
        IN  /\ m >= 1
            /\ \A n \in 1..(m - 1) : ServerNext(f, ret.reqs[n].k) # NoCookie
            /\ ~ret.faulted =>
                 /\ ~ret.raised
                 /\ ServerNext(f, ret.reqs[m].k) = NoCookie
            /\ ret.faulted => Len(ret.seen) = (m - 1) * pageCap

\* a password-never-expires scan has ended with its second or a later
\* request, all of them answered
C24_Witness ==
    /\ ret.op = "count_password_never_expire_accounts"
    /\ ~ret.faulted
    /\ ~ret.raised
    /\ Len(ret.reqs) >= 2

\* C3: for a limit >= 0 (0 included) the sample of find_inactive_accounts and
\* of count_memberless_groups has at most limit entries and at most count
\* entries, and groups_without_owner lists at most count groups.
C3_SampleWithinLimit ==
    /\ (/\ ret.op \in {"find_inactive_accounts", "count_memberless_groups"}
        /\ ~ret.raised
        /\ ret.limit.some
        /\ ret.limit.v >= 0)
       => /\ Len(ret.value.sample) <= ret.limit.v
          /\ Len(ret.value.sample) <= ret.value.count
    /\ (/\ ret.op = "groups_without_owner"
        /\ ret.limit.v >= 0
        /\ "groups" \in DOMAIN ret.value)
       => Len(ret.value.groups) <= ret.limit.v

\* C4: when every request is answered, the count a metric reports is the
\* number of matching entries on all server pages, and for max_results >= 1
\* its sample holds exactly min(max_results, total) entries.
C4_TotalAcrossPages ==
    (ret.op \in DOMAIN ScanFilter /\ ~ret.faulted /\ ~ret.raised) =>
        LET total == Len(Matching(ScanFilter[ret.op]))
        IN  /\ ret.value.count = total
            /\ (ret.limit.some /\ ret.limit.v >= 1)
               => Len(ret.value.sample) = Min(ret.limit.v, total)

\* C9: when its search is answered, count_account_lockouts returns: the count
\* is the number of entries of the response, every entry of the slice has a
\* sample record, and the record of an entry whose lockoutTime is zero,
\* absent or rejected by int() carries lockoutTime None.
C9_DecodeNeverAborts ==
    (ret.op = "count_account_lockouts" /\ ~ret.faulted) =>
        /\ ~ret.raised
        /\ ret.value.count = Len(conn.entries)
        /\ Len(ret.value.sample) = Len(ret.seen)
        /\ \A i \in 1..Len(ret.value.sample) :
             /\ ret.value.sample[i].lockoutTime_raw = ret.seen[i].lockoutTime
             /\ ret.seen[i].lockoutTime \in {IntValue(0), NoValue, BadValue}
                => ret.value.sample[i].lockoutTime = None

\* count_account_lockouts has returned a sample with a value int() rejects
\* and a value that decodes
C9_Witness ==
    /\ ret.op = "count_account_lockouts"
    /\ ~ret.raised
    /\ \E i \in 1..Len(ret.value.sample) :
         /\ ret.value.sample[i].lockoutTime_raw = BadValue
         /\ ret.value.sample[i].lockoutTime = None
    /\ \E i \in 1..Len(ret.value.sample) : ret.value.sample[i].lockoutTime # None

(***************************************************************************)
(* Properties of the AD_Provisioning_Agent classifiers (SpecAD)            *)
(***************************************************************************)
\* the owner reference resolves to a user entry whose userAccountControl has
\* the ACCOUNTDISABLE bit
OwnerDisabled(g) ==
    g.owner.kind = "user" /\ g.owner.uac.tag = "int" /\ DisabledBit(g.owner.uac.v)

GroupsWhere(Test(_)) == {i \in 1..Len(groups) : Test(groups[i])}

\* C6: when every request is answered and list_inactive_owner_groups returns
\* status success, total is the number of groups whose owner resolved and has
\* the disabled bit set, and every listed group is one of them; a group whose
\* owner reference is dangling is neither counted nor listed.
C6_DanglingOwnerNotCounted ==
    (/\ ret.op = "list_inactive_owner_groups"
     /\ ~ret.faulted
     /\ ret.value.status = "success")
    => /\ ret.value.total = Cardinality(GroupsWhere(OwnerDisabled))
       /\ "groups" \in DOMAIN ret.value
          => \A j \in 1..Len(ret.value.groups) :
               /\ ret.value.groups[j].group \in GroupsWhere(OwnerDisabled)
               /\ groups[ret.value.groups[j].group].owner # DanglingRef

\* list_inactive_owner_groups has listed a group in a directory that also
\* holds a group with a dangling owner reference
C6_Witness ==
    /\ ret.op = "list_inactive_owner_groups"
    /\ ~ret.faulted
    /\ ret.value.status = "success"
    /\ \E i \in 1..Len(groups) : groups[i].owner = DanglingRef
    /\ "groups" \in DOMAIN ret.value
    /\ Len(ret.value.groups) >= 1
    /\ ret.value.total >= 1

\* C25: when every request is answered, the groups list_inactive_owner_groups
\* examines are the groups the managedBy=* search returned, each once and in
\* the order returned, with one owner lookup for each: none skipped, none
\* repeated, none replaced by an owner entry.
C25_EveryOwnedGroupExaminedOnce ==
    (ret.op = "list_inactive_owner_groups" /\ ~ret.faulted) =>
        /\ ret.seen = Matching("owned")
        /\ Len(ret.reqs) = 1 + Len(Matching("owned"))

\* C27: every result of groups_without_owner and list_inactive_owner_groups
\* that carries "shown" lists exactly shown groups, and 0 <= shown <= total,
\* whatever integer the caller passed as count or limit.
C27_ShownIsNumberListed ==
    (/\ ret.op \in {"groups_without_owner", "list_inactive_owner_groups"}
     /\ ~ret.raised
     /\ "shown" \in DOMAIN ret.value)
    => /\ ret.value.shown = Len(ret.value.groups)
       /\ ret.value.shown >= 0
       /\ "total" \in DOMAIN ret.value => ret.value.shown <= ret.value.total

\* C7: for any directory, when every request is answered, the ownerless
\* classifier reports as total the number of groups without owner, the
\* inactive-owner classifier returns status success with as total the number
\* of groups whose owner has the disabled bit, and the groups the two list
\* are different groups: the first lists only groups without owner, the
\* second only groups with one.
C7_OwnerlessInactiveDisjoint ==
    /\ (ret.op = "groups_without_owner" /\ ~ret.faulted /\ ret.mode \in {"count", "both"})
       => /\ ret.value.status = "success"
          /\ ret.value.total = Cardinality(GroupsWhere(HasNoOwner))
          /\ "groups" \in DOMAIN ret.value
             => \A j \in 1..Len(ret.value.groups) :
                  ret.value.groups[j].cn \in GroupsWhere(HasNoOwner)
    /\ (ret.op = "list_inactive_owner_groups" /\ ~ret.faulted)
       => /\ ret.value.status = "success"
          /\ ret.value.total = Cardinality(GroupsWhere(OwnerDisabled))
          /\ "groups" \in DOMAIN ret.value
             => \A j \in 1..Len(ret.value.groups) :
                  ret.value.groups[j].group \in GroupsWhere(HasOwner)

\* C10: when every request is answered, list_inactive_owner_groups returns
\* status success whatever the userAccountControl of an owner entry reads.
C10_MalformedAttributeDegrades ==
    (ret.op = "list_inactive_owner_groups" /\ ~ret.faulted)
    => ret.value.status = "success"

(***************************************************************************)
(* Properties of the timestamp conversions (SpecCodec)                     *)
(***************************************************************************)
\* C8: a time t after 1601-01-01T00:00:00Z that was encoded by
\* datetime_to_filetime and decoded as count_account_lockouts decodes
\* lockoutTime is t again.
C8_TimestampRoundTrip ==
    (codec.stage = "decoded" /\ codec.t > 0) => codec.back = Some(codec.t)

\* C11: a paged scan (count_memberless_groups,
\* count_password_never_expire_accounts) one of whose page requests the
\* server does not answer with success never returns a count and a sample:
\* it ends with an error.
C11_ScanErrorSurfaced ==
    (ret.op \in PagedScans /\ ret.faulted) => ret.raised

\* C12: when its search is answered, a group classifier called to list
\* groups with count 0 (groups_with_zero_members; groups_without_owner with
\* action "list" or "both") returns no listed groups, the total of all
\* matching groups and, when there are any, a message stating that total.
C12_LimitZeroCountsOnly ==
    (/\ ret.op \in {"groups_with_zero_members", "groups_without_owner"}
     /\ ret.mode \in {"", "list", "both"}
     /\ ret.limit = Some(0)
     /\ ~ret.faulted)
    => LET matching == IF ret.op = "groups_with_zero_members"
                       THEN Matching("memberless") ELSE Matching("ownerless")
       IN  /\ "groups" \in DOMAIN ret.value
           /\ ret.value.groups = <<>>
           /\ "total" \in DOMAIN ret.value
           /\ ret.value.total = Len(matching)
           /\ matching # <<>> => /\ "message" \in DOMAIN ret.value
                                 /\ ret.value.message = Len(matching)

(***************************************************************************)
(* Properties of the metrics run on one shared connection (SpecShared)     *)
(***************************************************************************)
\* C14: on an unchanged directory and tenant, whatever metrics ran before it
\* on the shared connection, and in whatever order, a metric returns what it
\* returned in the order of build_iam_dashboard.
C14_ResultIndependentOfEarlierCalls ==
    ret.op \in {MetricOps[k] : k \in 1..Len(MetricOps)} =>
        /\ ~ret.raised
        /\ ret.value = snap[MetricOf(ret.op)]

\* count_service_accounts has run again on the connection of a plugin that
\* built a snapshot of a directory with service accounts
C14_Witness ==
    /\ DOMAIN snap = {Metrics[k] : k \in 1..Len(Metrics)}
    /\ ret.op = "count_service_accounts"
    /\ ret.value.count > 0
    /\ conn.entries # <<>>

\* C19: in any sequence of metric calls on the shared connection, the first
\* request of a call carries no cookie, every later request of a paged scan
\* carries exactly the cookie the server returned with the preceding page
\* of that scan, and no request carries a cookie of a search with another
\* filter.
C19_CursorPassedBackUnchanged ==
    ret.op \in {MetricOps[k] : k \in 6..Len(MetricOps)} =>
        /\ ret.reqs # <<>>
        /\ ret.reqs[1] = NoCookie
        /\ \A n \in 2..Len(ret.reqs) :
             /\ ret.op \in PagedScans
             /\ ret.reqs[n] # NoCookie
             /\ ret.reqs[n].f = ScanFilter[ret.op]
             /\ ret.reqs[n] = ServerNext(ScanFilter[ret.op], ret.reqs[n - 1].k)

\* count_memberless_groups has read two pages or more on the connection of
\* a plugin that built a snapshot, in a directory where find_inactive_accounts
\* leaves the cookie of its unread second page in the connection
C19_Witness ==
    /\ DOMAIN snap = {Metrics[k] : k \in 1..Len(Metrics)}
    /\ ret.op = "count_memberless_groups"
    /\ Len(ret.reqs) >= 2
    /\ acct["inactive"] > pageCap

(***************************************************************************)
(* Properties of the cloud classifiers (SpecCloud)                         *)
(***************************************************************************)
\* application a of the tenant is covered by a conditional-access policy
\* whose grant controls include MFA
CoveredByMfa(a) ==
    \E j \in 1..Len(cloud.policies) :
        /\ cloud.policies[j].mfa
        /\ cloud.policies[j].all \/ a \in cloud.policies[j].include
        /\ a \notin cloud.policies[j].exclude

IdsOf(s) == {s[i].id : i \in 1..Len(s)}

\* the tenant's groups all of whose owners pages are empty, in listing order
CloudOwnerless ==
    LET NoOwner(g) == \A j \in 1..Len(g.owners) : g.owners[j] = <<>>
    IN  Filter(cloud.groups, NoOwner)

\* C15: when both requests are answered, get_mfa_disabled_apps lists, each
\* once, exactly the applications registered in the tenant that no
\* conditional-access policy with the MFA grant control covers, and count is
\* the number of applications listed.
C15_MfaDisabledIsSetDifference ==
    (ret.op = "get_mfa_disabled_apps" /\ ~ret.faulted) =>
        /\ ~ret.raised
        /\ "count" \in DOMAIN ret.value
        /\ IdsOf(ret.value.apps_without_mfa) = {a \in 1..cloud.apps : ~CoveredByMfa(a)}
        /\ ret.value.count = Len(ret.value.apps_without_mfa)
        /\ ret.value.count = Cardinality(IdsOf(ret.value.apps_without_mfa))

OwnerlessOps == {"get_ownerless_groups", "count_ownerless_groups", "list_ownerless_groups"}

\* the groups a returned result reports as ownerless
ReportedOwnerless ==
    IF ret.op = "get_ownerless_groups" THEN Get(ret.value, "value", <<>>)
    ELSE Get(ret.value, "groups", <<>>)

\* C16: when every request is answered, the ownerless-groups metric
\* (get_ownerless_groups of the dashboard, count_ownerless_groups of the
\* provisioning agent) examines every group of the tenant, whatever page of
\* the listing it is on, and reports exactly the groups all of whose owners
\* pages are empty.
C16_EveryGroupExamined ==
    (ret.op \in {"get_ownerless_groups", "count_ownerless_groups"} /\ ~ret.faulted) =>
        /\ ~ret.raised
        /\ IdsOf(ret.seen) = IdsOf(cloud.groups)
        /\ IdsOf(ReportedOwnerless) = IdsOf(CloudOwnerless)
        /\ Len(ReportedOwnerless) = Len(CloudOwnerless)

\* C17: when the only requests of an ownerless-groups operation that fail
\* are owners lookups answered with a non-success status, the operation
\* returns its normal result and reports none of the groups whose lookup
\* failed.
C17_FailedLookupNotReported ==
    (/\ ret.op \in OwnerlessOps
     /\ failed # {}
     /\ faults = Cardinality(failed)
     /\ \A n \in failed : ret.reqs[n].url = "owners")
    => /\ ~ret.raised
       /\ "error" \notin DOMAIN ret.value
       /\ Get(ret.value, "status", "success") = "success"
       /\ \A n \in failed : ret.reqs[n].id \notin IdsOf(ReportedOwnerless)

\* C18: when every request is answered, the total of
\* list_ownerless_groups(max_results) is the count count_ownerless_groups
\* reports for the same tenant, whatever max_results is, and for
\* max_results >= 0 at most max_results groups are listed.
C18_ListTotalIsCount ==
    (ret.op = "list_ownerless_groups" /\ ~ret.faulted) =>
        /\ Get(ret.value, "status", "") = "success"
        /\ ret.value.total = count_ownerless_groups(CloudOk).value.count
        /\ ret.limit.v >= 0 => Len(ret.value.groups) <= ret.limit.v

(***************************************************************************)
(* Properties of the naming-convention classifier (SpecNaming)             *)
(***************************************************************************)
\* the name begins with one of the prefixes of the allow-list of the call
NameAllowed(g) ==
    \E prefix \in AllowLists[ret.mode] :
        \E k \in 0..Len(g.cn) : SubSeq(g.cn, 1, k) = prefix

\* the groups inside / outside OU=BU_Groups whose name is not allowed
NonConformingInside ==
    LET Hit(g) == g.ou = "BU_Groups" /\ ~NameAllowed(g)
    IN  Map(Filter(groups, Hit), CnOf)
NonConformingOutside ==
    LET Hit(g) == g.ou # "BU_Groups" /\ ~NameAllowed(g)
    IN  Map(Filter(groups, Hit), CnOf)

\* what the call reports of the groups `expected`: their number as total for
\* every count, none listed for count 0, the first min(count, total) of them
\* for count >= 1, and never a group that is not one of them
ReportsExactly(expected) ==
    /\ ~ret.raised
    /\ ret.value.status = "success"
    /\ ret.value.total = Len(expected)
    /\ ret.limit.v = 0 => ret.value.groups = <<>>
    /\ ret.limit.v >= 1 => ret.value.groups = SubSeq(expected, 1, Min(ret.limit.v, Len(expected)))
    /\ \A i \in 1..Len(ret.value.groups) :
         \E j \in 1..Len(expected) : ret.value.groups[i] = expected[j]

\* C20 as stated: when its search is answered,
\* groups_not_following_naming_convention reports exactly the groups outside
\* the designated sub-tree whose name starts with no prefix of the
\* allow-list, and total counts all of them regardless of count.
C20_NonConformingOutsideSubtree ==
    (ret.op = "groups_not_following_naming_convention" /\ ~ret.faulted) =>
        ReportsExactly(NonConformingOutside)

\* C20 amended: when its search is answered,
\* groups_not_following_naming_convention reports exactly the groups inside
\* the designated sub-tree (OU=BU_Groups) whose name starts with no prefix of
\* the allow-list (every such group for an empty allow-list), and total
\* counts all of them regardless of count.
C20_NonConformingInsideSubtree ==
    (ret.op = "groups_not_following_naming_convention" /\ ~ret.faulted) =>
        ReportsExactly(NonConformingInside)

\* the classifier was called with a non-empty allow-list and a count on a
\* directory with a conforming and a non-conforming group inside
\* OU=BU_Groups and a non-conforming group outside it, and listed the one
\* inside
C20_Witness ==
    /\ ret.op = "groups_not_following_naming_convention"
    /\ ~ret.faulted
    /\ ret.mode = "SG"
    /\ ret.limit.v >= 1
    /\ NonConformingOutside # <<>>
    /\ Len(NonConformingInside) < Len(SelectSeq(groups, InBuGroups))
    /\ ret.value.total = 1
    /\ ret.value.groups = <<[cn |-> <<"D", "L", "b">>]>>

(***************************************************************************)
(* Properties of show_group_members (SpecMembers)                          *)
(***************************************************************************)
\* the member reference resolves to nothing, or to a user whose
\* userAccountControl int() accepts
Resolvable(m) == m.kind = "dangling" \/ (m.kind = "user" /\ ParseInt(m.uac).ok)

\* C21: when every request is answered, show_group_members raises only if a
\* listed member is a user whose userAccountControl int() rejects, never for
\* a dangling reference; a returned result has one record per listed
\* member, the record is "unknown" exactly for the dangling references, and
\* total is the number of member references of the group.
C21_DanglingMemberIsUnknown ==
    (ret.op = "show_group_members" /\ ~ret.faulted) =>
        /\ ret.raised => \E i \in 1..Len(ret.seen) : ~Resolvable(ret.seen[i])
        /\ (~ret.raised /\ "shown" \in DOMAIN ret.value) =>
             /\ ret.value.total = Len(groups[ret.group].members)
             /\ Len(ret.value.members) = Len(ret.seen)
             /\ \A i \in 1..Len(ret.seen) :
                  (ret.seen[i].kind = "dangling") <=>
                      (ret.value.members[i].status = "unknown")

\* show_group_members returned for a group of three members, one of them a
\* dangling reference listed as unknown next to a disabled and an active one
C21_Witness ==
    /\ ret.op = "show_group_members"
    /\ ~ret.faulted
    /\ ~ret.raised
    /\ "shown" \in DOMAIN ret.value
    /\ ret.value.total = 3
    /\ {ret.value.members[i].status : i \in 1..Len(ret.value.members)}
         = {"unknown", "disabled", "active"}

(***************************************************************************)
(* Properties of the account-control checks (SpecFlags)                    *)
(***************************************************************************)
\* binary digit k (0: least significant) of n is 1
BitSet(n, k) ==
    LET b == IntBits(n) IN k < Len(b) /\ b[Len(b) - k] = 1

\* C22: the disabled check is true exactly when binary digit 1 (0x2) of the
\* userAccountControl value is set, and the password-never-expires check
\* exactly when digit 16 (0x10000) is set: 0x202 is disabled and can expire,
\* 0x10200 is not disabled and never expires, 0 is neither.
C22_FlagBitsPreserved ==
    /\ ret.op = "disabled_check" =>
         /\ ret.value.result = BitSet(ret.limit.v, 1)
         /\ ret.limit.v = 514 => ret.value.result
         /\ ret.limit.v \in {0, 66048} => ~ret.value.result
    /\ ret.op = "password_never_expires_check" =>
         /\ ret.value.result = BitSet(ret.limit.v, 16)
         /\ ret.limit.v = 66048 => ret.value.result
         /\ ret.limit.v \in {0, 514} => ~ret.value.result

\* the disabled check was applied to 0x10200 and found the account enabled
C22_Witness ==
    /\ ret.op = "disabled_check"
    /\ ret.limit.v = 66048
    /\ ~ret.value.result

(***************************************************************************)
(* Properties of the build against a deadline (SpecDeadline)               *)
(***************************************************************************)
\* C23: a build during which the overall deadline passed returns a snapshot
\* (it does not raise) in which the entry of the metric that was in flight
\* at that moment is an error entry, the report of its timeout; stated for
\* the builds all of whose requests were answered.
C23_DeadlineCancelsInFlight ==
    (ret.op = "build_iam_dashboard" /\ deadline > 0 /\ faults = 0) =>
        /\ ~ret.raised
        /\ Metrics[deadline] # "ownerless_groups_ad"
        /\ "error" \in DOMAIN ret.value[Metrics[deadline]]

(***************************************************************************)
(* Properties of the listing operations of ProvisioningAgent (SpecOrch)    *)
(***************************************************************************)
\* the tenant's groups that have an owner and whose owners, on all pages,
\* all have accountEnabled false, in listing order
CloudInactiveOwned ==
    LET AllDisabled(g) ==
            /\ \E j \in 1..Len(g.owners) : g.owners[j] # <<>>
            /\ \A j \in 1..Len(g.owners) : \A k \in 1..Len(g.owners[j]) :
                 /\ "accountEnabled" \in DOMAIN g.owners[j][k]
                 /\ g.owners[j][k].accountEnabled = FALSE
    IN  Filter(cloud.groups, AllDisabled)

\* C26: when every request is answered, list_groups_with_inactive_owners
\* returns status success with as total the number of groups of the tenant
\* that have at least one owner and only owners with accountEnabled false,
\* whatever limit is; count_only returns that total with an empty list;
\* otherwise the list holds exactly those groups, cut to the first limit of
\* them when limit > 0.
C26_InactiveOwnerGroupsReported ==
    (ret.op = "list_groups_with_inactive_owners" /\ ~ret.faulted) =>
        LET expected == [i \in 1..Len(CloudInactiveOwned) |->
                            [groupId |-> CloudInactiveOwned[i].id]]
        IN  /\ ret.value.status = "success"
            /\ ret.value.total = Len(expected)
            /\ ret.value.items =
                 IF ret.mode = "count_only" THEN <<>>
                 ELSE IF ret.limit.v > 0
                 THEN SubSeq(expected, 1, Min(ret.limit.v, Len(expected)))
                 ELSE expected

\* what the tenant holds for each listing, in server order
Available ==
    [list_users |-> Map(GraphList(cloud.users), UserRow),
     list_groups |-> Map(cloud.groups, GroupRow)]

\* C28: when every request is answered, list_users and list_groups return
\* the first min(max_results, available) rows the server holds, in server
\* order and each once (none for max_results <= 0); the pages requested are
\* the first ones in order, and there are exactly as many requests as pages
\* of min(max_results, server page size) rows are needed for those rows: one
\* for an empty listing, none for max_results <= 0.
C28_ListReturnsFirstRows ==
    (ret.op \in {"list_users", "list_groups"} /\ ~ret.faulted) =>
        LET all == Available[ret.op]
            n == Min(Max(ret.limit.v, 0), Len(all))
            size == Min(ret.limit.v, pageCap)
            m == Len(ret.reqs)
        IN  /\ ~ret.raised
            /\ ret.value.rows = SubSeq(all, 1, n)
            /\ \A k \in 1..m : ret.reqs[k].page = k - 1
            /\ ret.limit.v <= 0 => m = 0
            /\ (ret.limit.v > 0 /\ n = 0) => m = 1
            /\ n > 0 => (m - 1) * size < n /\ n <= m * size

\* list_users has stopped at max_results rows, collected from two pages or
\* more, while the server held more users
C28_Witness ==
    /\ ret.op = "list_users"
    /\ ~ret.faulted
    /\ ~ret.raised
    /\ Len(ret.reqs) >= 2
    /\ Len(ret.value.rows) = ret.limit.v
    /\ cloud.users > ret.limit.v

(***************************************************************************)
(* Properties of the assistant's live logs (SpecObs)                       *)
(***************************************************************************)
\* the events search_iam_docs_stream pushes during one query, in order
TurnEvents(run_failed) ==
    SegmentEvents(1, run_failed) \o SegmentEvents(2, run_failed)
    \o SegmentEvents(3, run_failed)
    \o (IF run_failed THEN <<>> ELSE SegmentEvents(4, run_failed))

\* C29: the events in the logs of every saved turn that were pushed during a
\* query are exactly the events pushed during the query of that turn of that
\* session, each once and in the order pushed; a session about to append
\* its turn to chat_history finds the queue empty; and the queue's count of
\* unfinished tasks is the number of events not yet removed or removed and
\* not yet marked done.
C29_EventsInOwnTurnLogs ==
    /\ \A s \in DOMAIN ui : \A t \in 1..Len(ui[s].chat_history) :
         LET h == ui[s].chat_history[t]
             PushedInQuery(e) == e.turn >= 1
             expected == TurnEvents(h.agent = "")
         IN  Filter(h.logs, PushedInQuery) =
                 [i \in 1..Len(expected) |->
                     [session |-> s, turn |-> t, operation |-> expected[i]]]
    /\ \A s \in DOMAIN ui : ui[s].pc = "save" => observability_queue.items = <<>>
    /\ observability_queue.unfinished_tasks =
         Len(observability_queue.items)
         + Cardinality({s \in DOMAIN ui : ui[s].pc = "log"})

(***************************************************************************)
(* Properties of the console loop (SpecChat)                               *)
(***************************************************************************)
DeleteMethods == {"delete_user", "delete_group"}

\* C30: a call of delete_user or delete_group is made only in a turn whose
\* intent is that operation, for the identifier entered in that turn, after
\* the operator answered the confirmation prompt of that turn with yes (in
\* any letter case); a delete turn that ended with any other answer has made
\* no call, and a turn of another intent never calls a delete operation.
C30_DeleteOnlyAfterYes ==
    /\ \A i \in 1..Len(chat.issued) :
         chat.issued[i].method \in DeleteMethods =>
            /\ chat.intent = chat.issued[i].method
            /\ Len(chat.inputs) = 2
            /\ chat.issued[i].args = <<chat.inputs[1]>>
            /\ Lower(chat.inputs[2]) = <<"y", "e", "s">>
    /\ (/\ chat.intent \in DeleteMethods
        /\ Len(chat.inputs) = 2
        /\ Lower(chat.inputs[2]) # <<"y", "e", "s">>)
       => chat.issued = <<>>

\* delete_group has been called for the identifier u1 after the answer YES
C30_Witness ==
    /\ chat.issued = <<[method |-> "delete_group", args |-> << <<"u", "1">> >>]>>
    /\ chat.inputs = << <<"u", "1">>, <<"Y", "E", "S">> >>

====
